---- MODULE Spec2Model ----
(***************************************************************************)
(* Model of the wave pattern engine (class LightAnimation,                 *)
(* src/lightAnimation.js) of the Speed of the Earth simulator, together    *)
(* with the fixture layout of src/main.js.                                 *)
(*                                                                         *)
(* Arithmetic.  The program computes in IEEE doubles; the model computes   *)
(* in exact rationals with fixed denominators:                             *)
(*   - time is counted in ticks of 1/TicksPerSecond s, chosen so that      *)
(*     timeBetweenLights (176/1156 s), FLASH_DURATION (0.05 s) and half of *)
(*     FLASH_DURATION are whole numbers of ticks;                          *)
(*   - Math.sin(x * Math.PI) is modelled by SinPi, the parabola            *)
(*     4x(1-x) on [0,1] continued as an odd function of period 2.  It has  *)
(*     the zeros, the sign, the symmetry, the monotonicity and the maximum *)
(*     1 at x = 1/2 of the sine; its value is a numerator over CurveDen;   *)
(*   - a light intensity is a numerator over CurveDen, an opacity and an   *)
(*     accent-spotlight intensity a numerator over 10 * CurveDen.          *)
(***************************************************************************)
EXTENDS Integers, Sequences, FiniteSets, TLC

\* ------------------------------------------------------------------------
\* Program constants
\* ------------------------------------------------------------------------
NUM_LIGHTS == 30
EARTH_ROTATION_SPEED == 1156
LIGHT_SPACING == 176
FLASH_DURATION_MS == 50
DEFAULT_PEAK_INTENSITY == 1000
PEAK_OPACITY_TENTHS == 8
PEAK_BULB_OPACITY_TENTHS == 10
SPOT_RATIO_TENTHS == 3
DEFAULT_LOW_BRIGHTNESS == 6000
DEFAULT_HIGH_BRIGHTNESS == 200000
BRIGHTNESS_DIVISOR == 200
FAST_FACTOR == 5
FAST_RUNS == 3
BLINK_COUNT == 3
BLINK_MS == 300
BLINK_ON_MS == 150
BURST_DIM_CYCLES == 5
BURST_TOTAL_CYCLES == 8

\* Ticks per second: 176/1156 s = 1760 ticks, 0.05 s = 578 ticks.
TicksPerSecond == EARTH_ROTATION_SPEED * 10

Fixtures == 0 .. (NUM_LIGHTS - 1)

\* this.FLASH_DURATION, in ticks
FLASH_DURATION == (FLASH_DURATION_MS * TicksPerSecond) \div 1000
\* this.timeBetweenLights, in ticks
timeBetweenLights == (LIGHT_SPACING * TicksPerSecond) \div EARTH_ROTATION_SPEED
\* this.cycleDuration, in ticks
cycleDuration == timeBetweenLights * NUM_LIGHTS

\* The denominator of a curve value and of a light intensity.
CurveDen == FLASH_DURATION * FLASH_DURATION

Abs(x) == IF x < 0 THEN 0 - x ELSE x
Min(a, b) == IF a < b THEN a ELSE b
Max(a, b) == IF a > b THEN a ELSE b

\* Math.sin(Math.PI * num / FLASH_DURATION), as a numerator over CurveDen.
SinPi(num) ==
    LET r == num % (2 * FLASH_DURATION)
    IN  IF r <= FLASH_DURATION
        THEN 4 * r * (FLASH_DURATION - r)
        ELSE 0 - 4 * (r - FLASH_DURATION) * (2 * FLASH_DURATION - r)

\* ------------------------------------------------------------------------
\* State
\* ------------------------------------------------------------------------
VARIABLES
    currentTime,      \* this.currentTime, ticks
    enabled,          \* this.enabled
    speedMultiplier,  \* this.speedMultiplier, in tenths
    allLightsOn,      \* this.allLightsOn
    animationMode,    \* this.animationMode
    modeState,        \* this.modeState: a function from the keys present
    convergencePoint, \* this.convergencePoint
    divergencePoint,  \* this.divergencePoint
    PEAK_INTENSITY,   \* this.PEAK_INTENSITY
    lowBrightness,    \* this.lowBrightness
    highBrightness,   \* this.highBrightness
    lights,           \* the fixtures: lights[i] with its spotLight, glow sphere and bulb
    timeOfDayPreset,  \* timeOfDayController.currentPreset
    wallClock,        \* the system clock new Date() reads, in seconds
    clockAtUpdate,    \* the system clock at the last update that ran the realtime burst
    lastCall,         \* the method of LightAnimation that returned last
    lastArg,          \* its argument, as a string
    \* CameraController (cameraControls.js)
    currentPreset,        \* this.currentPreset
    isTransitioning,      \* this.isTransitioning
    sinceTransitionStart, \* performance.now() - this.transitionStart, quarter seconds
    transitionDuration,   \* this.transitionDuration, quarter seconds
    transitionFromPos,    \* this.transitionFromPos
    transitionFromTarget, \* this.transitionFromTarget
    transitionToPos,      \* this.transitionToPos
    transitionToTarget,   \* this.transitionToTarget
    transitionFromFov,    \* this.transitionFromFov
    transitionToFov,      \* this.transitionToFov
    isFollowingWave,      \* this.isFollowingWave
    wavePosition,         \* this.wavePosition
    isWalkingMode,        \* this.isWalkingMode
    moveState,            \* this.moveState
    euler,                \* this.euler
    transitionToEuler,    \* this.transitionToEuler
    transitionFromEuler,  \* this.transitionFromEuler
    isJumping,            \* this.isJumping
    verticalVelocity,     \* this.verticalVelocity
    cameraPosition,       \* this.camera.position
    controlsTarget,       \* this.controls.target
    cameraFov,            \* this.camera.fov
    controlsEnabled,      \* this.controls.enabled
    lastCameraCall,       \* the method or handler of CameraController that returned last
    lastKey,              \* the key of the key event handled last
    lastPresetKey,        \* the key handed to the setPreset call made last
    keysHeld,             \* the move keys (w, s, a, d, shift) physically held
    teleports,            \* the teleportToPosition calls made so far
    walked                \* the updates that moved the camera by walking so far

params == <<enabled, speedMultiplier, allLightsOn, animationMode, convergencePoint,
            divergencePoint, lowBrightness, highBrightness>>
outputs == <<lights>>
cameraVars == <<currentPreset, isTransitioning, sinceTransitionStart, transitionDuration,
                transitionFromPos, transitionFromTarget, transitionToPos,
                transitionToTarget, transitionFromFov, transitionToFov, isFollowingWave,
                wavePosition, isWalkingMode, moveState, euler, transitionToEuler,
                transitionFromEuler, isJumping, verticalVelocity, cameraPosition,
                controlsTarget, cameraFov, controlsEnabled, lastCameraCall, lastKey,
                lastPresetKey, keysHeld,
                teleports, walked>>
clock == <<wallClock, clockAtUpdate>>
lightVars == <<currentTime, modeState, PEAK_INTENSITY, params, outputs, timeOfDayPreset,
               clock, lastCall, lastArg>>
vars == <<lightVars, cameraVars>>

\* this.modeState = {}
EmptyModeState == [k \in {} |-> 0]

Has(key) == key \in DOMAIN modeState

\* A fixture's outputs: intensity is lights[i].intensity (a numerator over
\* CurveDen), spotLight is lights[i].userData.spotLight.intensity, glowOpacity
\* is glowSpheres[i].material.opacity and bulbOpacity is
\* lights[i].userData.bulb.material.opacity (numerators over 10 * CurveDen).
Dark == [intensity |-> 0, spotLight |-> 0, glowOpacity |-> 0, bulbOpacity |-> 0]

Zeros == [k \in 1 .. NUM_LIGHTS |-> Dark]

\* ------------------------------------------------------------------------
\* CameraController: units, presets and the state after construction
\* ------------------------------------------------------------------------

\* Lengths, field of view and velocities are numerators over CamDen (feet,
\* degrees, feet per second); angles are numerators over CamDen milliradians.
CamDen == 32

Vec(x, y, z) == <<x * CamDen, y * CamDen, z * CamDen>>

\* null
Null == <<>>

\* CameraPresets: position, target, fov and the two mode marks.  look is the
\* pair of angles (yaw, pitch) of normalize(target - position), that is
\* Math.atan2(x, -z) and Math.asin(y), rounded to the milliradian.
CameraPresets ==
    [WALKING |-> [position |-> Vec(40, 6, 0 - 2590), target |-> Vec(0, 4, 0 - 2400),
                  fov |-> 75 * CamDen, isWalking |-> TRUE, isFollowing |-> FALSE,
                  look |-> <<0 - 2934, 0 - 10>>],
     GROUND |-> [position |-> Vec(0, 6, 0 - 2602), target |-> Vec(0, 4, 2552),
                 fov |-> 75 * CamDen, isWalking |-> FALSE, isFollowing |-> FALSE,
                 look |-> <<3142, 0>>],
     GROUND_END |-> [position |-> Vec(0, 8, 2600), target |-> Vec(0, 4, 0 - 2552),
                     fov |-> 75 * CamDen, isWalking |-> FALSE, isFollowing |-> FALSE,
                     look |-> <<0, 0 - 1>>],
     ELEVATED |-> [position |-> Vec(1200, 600, 1200), target |-> Vec(0, 0, 0 - 500),
                   fov |-> 60 * CamDen, isWalking |-> FALSE, isFollowing |-> FALSE,
                   look |-> <<0 - 615, 0 - 281>>],
     AERIAL |-> [position |-> Vec(0, 4000, 0), target |-> Vec(0, 0, 0),
                 fov |-> 90 * CamDen, isWalking |-> FALSE, isFollowing |-> FALSE,
                 look |-> <<3142, 0 - 1571>>],
     SIDE |-> [position |-> Vec(2000, 400, 0), target |-> Vec(0, 0, 0),
               fov |-> 70 * CamDen, isWalking |-> FALSE, isFollowing |-> FALSE,
               look |-> <<0 - 1571, 0 - 197>>],
     FOLLOW |-> [position |-> Vec(0, 50, 0 - 2552), target |-> Vec(0, 4, 0 - 2552),
                 fov |-> 70 * CamDen, isWalking |-> FALSE, isFollowing |-> TRUE,
                 look |-> <<3142, 0 - 1571>>]]

PresetKeys == DOMAIN CameraPresets

\* The euler (x, y, z) the look direction of a preset gives:
\* euler.y = atan2(x, -z), euler.x = asin(y), euler.z = 0
LookEuler(presetKey) ==
    <<CameraPresets[presetKey].look[2] * CamDen,
      CameraPresets[presetKey].look[1] * CamDen, 0>>

\* this.transitionDuration = 1.5, in quarter seconds
DEFAULT_TRANSITION_DURATION == 6

\* this.jumpSpeed, this.gravity, this.groundLevel, this.walkSpeed and
\* this.runSpeedMultiplier
JUMP_SPEED == 30
GRAVITY == 60
GROUND_LEVEL == 6
WALK_SPEED == 50
RUN_SPEED_MULTIPLIER == 3

NoMove == [forward |-> FALSE, backward |-> FALSE, left |-> FALSE, right |-> FALSE,
           running |-> FALSE]

\* The CameraController after its constructor, which ends with
\* setPreset('WALKING', false).
CameraInit ==
    /\ currentPreset = "WALKING"
    /\ isTransitioning = FALSE
    /\ sinceTransitionStart = 0
    /\ transitionDuration = DEFAULT_TRANSITION_DURATION
    /\ transitionFromPos = Vec(0, 0, 0)
    /\ transitionFromTarget = Vec(0, 0, 0)
    /\ transitionToPos = Vec(0, 0, 0)
    /\ transitionToTarget = Vec(0, 0, 0)
    /\ transitionFromFov = 75 * CamDen
    /\ transitionToFov = 75 * CamDen
    /\ isFollowingWave = FALSE
    /\ wavePosition = 0
    /\ isWalkingMode = TRUE
    /\ moveState = NoMove
    /\ euler = LookEuler("WALKING")
    /\ transitionToEuler = Null
    /\ transitionFromEuler = <<0, 0, 0>>
    /\ isJumping = FALSE
    /\ verticalVelocity = 0
    /\ cameraPosition = CameraPresets["WALKING"].position
    /\ controlsTarget = CameraPresets["WALKING"].target
    /\ cameraFov = CameraPresets["WALKING"].fov
    /\ controlsEnabled = FALSE
    /\ lastCameraCall = "constructor"
    /\ lastKey = ""
    /\ lastPresetKey = ""
    /\ keysHeld = {}
    /\ teleports = 0
    /\ walked = 0

\* The state after main.js has constructed the LightAnimation and the
\* CameraController.
Init ==
    /\ currentTime = 0
    /\ enabled = TRUE
    /\ speedMultiplier = 10
    /\ allLightsOn = FALSE
    /\ animationMode = "sequential"
    /\ modeState = EmptyModeState
    /\ convergencePoint = NUM_LIGHTS \div 2
    /\ divergencePoint = NUM_LIGHTS \div 2
    /\ PEAK_INTENSITY = DEFAULT_PEAK_INTENSITY
    /\ lowBrightness = DEFAULT_LOW_BRIGHTNESS
    /\ highBrightness = DEFAULT_HIGH_BRIGHTNESS
    /\ lights = Zeros
    /\ timeOfDayPreset = "day"
    /\ wallClock = 0
    /\ clockAtUpdate = 0 - 1
    /\ lastCall = "constructor"
    /\ lastArg = ""
    /\ CameraInit

\* ------------------------------------------------------------------------
\* Writing the fixtures
\* ------------------------------------------------------------------------

\* The record calculateFlashIntensity returns for every time outside the window.
DarkFlash == [intensity |-> 0, glowOpacity |-> 0, bulbOpacity |-> 0]

\* Mutant: a flash lasts two trigger intervals.
calculateFlashIntensity_LongFlash(timeDiff, peak) ==
    IF timeDiff > 2 * timeBetweenLights
    THEN DarkFlash
    ELSE LET curve == SinPi(timeDiff)
         IN  [intensity |-> curve * peak,
              glowOpacity |-> curve * PEAK_OPACITY_TENTHS,
              bulbOpacity |-> curve * PEAK_BULB_OPACITY_TENTHS]

\* Mutant: the cut-off compares with timeBetweenLights instead of FLASH_DURATION.
calculateFlashIntensity_LateCutoff(timeDiff, peak) ==
    IF timeDiff > timeBetweenLights
    THEN DarkFlash
    ELSE LET curve == SinPi(timeDiff)
         IN  [intensity |-> curve * peak,
              glowOpacity |-> curve * PEAK_OPACITY_TENTHS,
              bulbOpacity |-> curve * PEAK_BULB_OPACITY_TENTHS]

calculateFlashIntensity(timeDiff, peak) ==
    IF timeDiff > FLASH_DURATION
    THEN DarkFlash
    ELSE LET curve == SinPi(timeDiff)
         IN  [intensity |-> curve * peak,
              glowOpacity |-> curve * PEAK_OPACITY_TENTHS,
              bulbOpacity |-> curve * PEAK_BULB_OPACITY_TENTHS]

\* The fixture arrays are JavaScript arrays indexed from 0; the model holds
\* them as one sequence, fixture i at place i + 1.
intensity(i) == lights[i + 1].intensity
spotIntensity(i) == lights[i + 1].spotLight
glowOpacity(i) == lights[i + 1].glowOpacity
bulbOpacity(i) == lights[i + 1].bulbOpacity

\* What setLightIntensity(index, intensity, glowOpacity, bulbOpacity) leaves
\* in a fixture
Written(flash) ==
    [intensity |-> flash.intensity,
     spotLight |-> flash.intensity * SPOT_RATIO_TENTHS,
     glowOpacity |-> flash.glowOpacity,
     bulbOpacity |-> flash.bulbOpacity]

\* setLightIntensity(i, ...) for every fixture i of DOMAIN flash, the other
\* fixtures untouched.
SetLightIntensities(flash) ==
    lights' = [k \in 1 .. NUM_LIGHTS |->
                IF (k - 1) \in DOMAIN flash THEN Written(flash[k - 1]) ELSE lights[k]]

setAllLightsIntensity(value) ==
    LET opacity == IF value > 0 THEN PEAK_OPACITY_TENTHS * CurveDen ELSE 0
        bulbValue == IF value > 0 THEN PEAK_BULB_OPACITY_TENTHS * CurveDen ELSE 0
    IN  lights' = [k \in 1 .. NUM_LIGHTS |->
                    [intensity |-> value * CurveDen,
                     spotLight |-> value * CurveDen * SPOT_RATIO_TENTHS,
                     glowOpacity |-> opacity,
                     bulbOpacity |-> bulbValue]]

\* ------------------------------------------------------------------------
\* The pattern variants.  Each takes the advanced currentTime t.
\* ------------------------------------------------------------------------

\* timeDiff of a fixture whose trigger is lightFlashTime, wrapped once by wrap
\* Mutant: a negative difference is not wrapped.
WrapOnce_Never(timeDiff, wrap) == timeDiff

WrapOnce(timeDiff, wrap) == IF timeDiff < 0 THEN timeDiff + wrap ELSE timeDiff

SequentialFlash(t, peak) ==
    LET cycleTime == t % cycleDuration
    IN  [i \in Fixtures |->
            LET lightFlashTime == i * timeBetweenLights
                timeDiff == WrapOnce(cycleTime - lightFlashTime, cycleDuration)
            IN  calculateFlashIntensity(timeDiff, peak)]

updateSequential(t) ==
    /\ SetLightIntensities(SequentialFlash(t, PEAK_INTENSITY))
    /\ UNCHANGED <<modeState, PEAK_INTENSITY>>

\* 0.3 s and 0.15 s of updateBlinkAll, in ticks
BlinkDuration == (BLINK_MS * TicksPerSecond) \div 1000
BlinkOnDuration == (BLINK_ON_MS * TicksPerSecond) \div 1000

updateBlinkAll(t) ==
    LET fullCycleDuration == cycleDuration + BLINK_COUNT * BlinkDuration
        cycleTime == t % fullCycleDuration
    IN  /\ IF cycleTime < cycleDuration
           THEN SetLightIntensities(
                    [i \in Fixtures |->
                        LET lightFlashTime == i * timeBetweenLights
                            timeDiff == WrapOnce(cycleTime - lightFlashTime, cycleDuration)
                        IN  calculateFlashIntensity(timeDiff, PEAK_INTENSITY)])
           ELSE LET blinkTime == cycleTime - cycleDuration
                    blinkCycle == blinkTime % BlinkDuration
                IN  setAllLightsIntensity(
                        IF blinkCycle < BlinkOnDuration THEN PEAK_INTENSITY ELSE 0)
        /\ UNCHANGED <<modeState, PEAK_INTENSITY>>

FastRunsFlash(t, peak) ==
    LET fastCycleDuration == cycleDuration \div FAST_FACTOR
        fullCycleDuration == cycleDuration + FAST_RUNS * fastCycleDuration
        cycleTime == t % fullCycleDuration
        effectiveCycleTime == IF cycleTime < cycleDuration
                              THEN cycleTime
                              ELSE (cycleTime - cycleDuration) % fastCycleDuration
        duration == IF cycleTime < cycleDuration THEN cycleDuration ELSE fastCycleDuration
    IN  [i \in Fixtures |->
            LET lightFlashTime == i * (timeBetweenLights
                                    \div (IF duration = cycleDuration THEN 1 ELSE FAST_FACTOR))
                timeDiff == WrapOnce(effectiveCycleTime - lightFlashTime, duration)
            IN  calculateFlashIntensity(timeDiff, peak)]

updateFastRuns(t) ==
    /\ SetLightIntensities(FastRunsFlash(t, PEAK_INTENSITY))
    /\ UNCHANGED <<modeState, PEAK_INTENSITY>>

\* Mutant: the reverse pass replays the forward pass instead of mirroring it.
PingPongFlash_NoMirror(t, peak) ==
    LET fullCycleDuration == cycleDuration * 2
        cycleTime == t % fullCycleDuration
        isReverse == cycleTime >= cycleDuration
        effectiveCycleTime == IF isReverse THEN cycleTime - cycleDuration ELSE cycleTime
    IN  [i \in Fixtures |->
            LET lightFlashTime == i * timeBetweenLights
                timeDiff == WrapOnce(effectiveCycleTime - lightFlashTime, cycleDuration)
            IN  calculateFlashIntensity(timeDiff, peak)]

PingPongFlash(t, peak) ==
    LET fullCycleDuration == cycleDuration * 2
        cycleTime == t % fullCycleDuration
        isReverse == cycleTime >= cycleDuration
        effectiveCycleTime == IF isReverse THEN fullCycleDuration - cycleTime ELSE cycleTime
    IN  [i \in Fixtures |->
            LET lightFlashTime == i * timeBetweenLights
                timeDiff == WrapOnce(effectiveCycleTime - lightFlashTime, cycleDuration)
            IN  calculateFlashIntensity(timeDiff, peak)]

updatePingPong(t) ==
    /\ SetLightIntensities(PingPongFlash(t, PEAK_INTENSITY))
    /\ UNCHANGED <<modeState, PEAK_INTENSITY>>

PingPongFastFlash(t, peak) ==
    LET fastCycleDuration == cycleDuration \div FAST_FACTOR
        fullCycleDuration == fastCycleDuration * 2
        cycleTime == t % fullCycleDuration
        isReverse == cycleTime >= fastCycleDuration
        effectiveCycleTime == IF isReverse THEN fullCycleDuration - cycleTime ELSE cycleTime
    IN  [i \in Fixtures |->
            LET lightFlashTime == i * (timeBetweenLights \div FAST_FACTOR)
                timeDiff == WrapOnce(effectiveCycleTime - lightFlashTime, fastCycleDuration)
            IN  calculateFlashIntensity(timeDiff, peak)]

updatePingPongFast(t) ==
    /\ SetLightIntensities(PingPongFastFlash(t, PEAK_INTENSITY))
    /\ UNCHANGED <<modeState, PEAK_INTENSITY>>

\* --- random ---------------------------------------------------------------

\* Array.from({length: N}, (_, i) => i): place k holds k - 1
Identity == [k \in 1 .. NUM_LIGHTS |-> k - 1]

\* Mutant: the exchange writes place i only, so a value is duplicated.
SwapPlaces_CopyOnly(seq, i, j) == [seq EXCEPT ![i + 1] = seq[j + 1]]

\* [seq[i], seq[j]] = [seq[j], seq[i]]
SwapPlaces(seq, i, j) == [seq EXCEPT ![i + 1] = seq[j + 1], ![j + 1] = seq[i + 1]]

\* The Fisher-Yates loop from index i down to 1; draw[i] is the value of
\* Math.floor(Math.random() * (i + 1)) in the iteration of index i.
RECURSIVE FisherYates(_, _, _)
FisherYates(seq, i, draw) ==
    IF i <= 0 THEN seq
    ELSE LET swapped == SwapPlaces(seq, i, draw[i])
         IN  FisherYates(swapped, i - 1, draw)

\* The draws Math.random() is let to make: the family indexed by a and b
\* in 0 .. MaxDraw, iteration i drawing (a * i + b) mod (i + 1).
MaxDraw == 2

DrawFamily ==
    { [i \in 1 .. (NUM_LIGHTS - 1) |-> (a * i + b) % (i + 1)] :
        a \in 0 .. MaxDraw, b \in 0 .. MaxDraw }

\* The flashes updateRandom writes: slot seqIndex flashes light seq[seqIndex];
\* of several slots naming one light the last one written wins, and a light
\* no slot names is not written.
RandomFlash(seq, t, peak) ==
    LET cycleTime == t % cycleDuration
        Slots(i) == {k \in 1 .. Len(seq) : seq[k] = i}
        Last(S) == CHOOSE k \in S : \A m \in S : m <= k
    IN  [i \in {x \in Fixtures : Slots(x) # {}} |->
            LET seqIndex == Last(Slots(i)) - 1
                lightFlashTime == seqIndex * timeBetweenLights
                timeDiff == WrapOnce(cycleTime - lightFlashTime, cycleDuration)
            IN  calculateFlashIntensity(timeDiff, peak)]

updateRandom(t) ==
    /\ \E draw \in DrawFamily :
        modeState' = IF Has("randomSequence")
                     THEN modeState
                     ELSE ("randomSequence" :> FisherYates(Identity, NUM_LIGHTS - 1, draw))
                            @@ modeState
    /\ SetLightIntensities(RandomFlash(modeState'.randomSequence, t, PEAK_INTENSITY))
    /\ UNCHANGED PEAK_INTENSITY

\* --- converge / diverge -----------------------------------------------------

\* distanceFromEnd of updateConvergeCenter
ConvergeCenterOffset(i) ==
    LET mid == NUM_LIGHTS \div 2
    IN  IF i <= mid THEN i ELSE NUM_LIGHTS - 1 - i

\* distanceFromCenter of updateDivergeCenter
DivergeCenterOffset(i) ==
    LET mid == NUM_LIGHTS \div 2
    IN  Abs(i - mid)

\* Mutant: the fixture at the point counts from the far end.
ConvergePointOffset_PointFromFarEnd(i, point) == IF i < point THEN i ELSE NUM_LIGHTS - 1 - i

\* distanceFromEnd of updateConvergePoint
ConvergePointOffset(i, point) == IF i <= point THEN i ELSE NUM_LIGHTS - 1 - i

\* distanceFromPoint of updateDivergePoint
DivergePointOffset(i, point) == Abs(i - point)

\* The loop the four variants share, over the half-length cycle
HalfCycleFlash(offset, t, peak) ==
    LET cycleTime == t % (cycleDuration \div 2)
    IN  [i \in Fixtures |->
            LET lightFlashTime == offset[i] * timeBetweenLights
                timeDiff == WrapOnce(cycleTime - lightFlashTime, cycleDuration \div 2)
            IN  calculateFlashIntensity(timeDiff, peak)]

updateConvergeCenter(t) ==
    /\ SetLightIntensities(
            HalfCycleFlash([i \in Fixtures |-> ConvergeCenterOffset(i)], t, PEAK_INTENSITY))
    /\ UNCHANGED <<modeState, PEAK_INTENSITY>>

updateConvergePoint(t) ==
    /\ SetLightIntensities(
            HalfCycleFlash([i \in Fixtures |-> ConvergePointOffset(i, convergencePoint)],
                           t, PEAK_INTENSITY))
    /\ UNCHANGED <<modeState, PEAK_INTENSITY>>

updateDivergeCenter(t) ==
    /\ SetLightIntensities(
            HalfCycleFlash([i \in Fixtures |-> DivergeCenterOffset(i)], t, PEAK_INTENSITY))
    /\ UNCHANGED <<modeState, PEAK_INTENSITY>>

updateDivergePoint(t) ==
    /\ SetLightIntensities(
            HalfCycleFlash([i \in Fixtures |-> DivergePointOffset(i, divergencePoint)],
                           t, PEAK_INTENSITY))
    /\ UNCHANGED <<modeState, PEAK_INTENSITY>>

\* --- brightness burst -------------------------------------------------------

\* brightness / 200, for the brightness values that are multiples of 200
Internal(brightness) == brightness \div BRIGHTNESS_DIVISOR

\* Mutant: the count is not reset after the eighth cycle.
BurstCount_NoReset(cycleCount) == cycleCount + 1

\* this.modeState.cycleCount++, reset to 0 at 8
BurstCount(cycleCount) ==
    IF cycleCount + 1 >= BURST_TOTAL_CYCLES THEN 0 ELSE cycleCount + 1

updateBrightnessBurst(t) ==
    LET fresh == ~Has("cycleCount")
        \* the mode state and the peak after the initialisation block
        state0 == IF fresh
                  THEN ("cycleCount" :> 0) @@ ("lastCycleTime" :> 0) @@ modeState
                  ELSE modeState
        peak0 == IF fresh THEN Internal(lowBrightness) ELSE PEAK_INTENSITY
        cycleTime == t % cycleDuration
        completed == cycleTime < state0.lastCycleTime
        count1 == IF completed THEN BurstCount(state0.cycleCount) ELSE state0.cycleCount
        peak1 == IF completed
                 THEN IF count1 < BURST_DIM_CYCLES
                      THEN Internal(lowBrightness)
                      ELSE Internal(highBrightness)
                 ELSE peak0
    IN  /\ modeState' = [state0 EXCEPT !["cycleCount"] = count1,
                                       !["lastCycleTime"] = cycleTime]
        /\ PEAK_INTENSITY' = peak1
        /\ SetLightIntensities(SequentialFlash(t, peak1))

\* 900 s, 30 s and 3 cycles of updateBrightnessBurstRealtime
QUARTER_SECONDS == 900
SECONDS_PER_HOUR == 3600
BURST_WINDOW_SECONDS == 30
BURST_REALTIME_CYCLES == 3

updateBrightnessBurstRealtime(t) ==
    LET fresh == ~Has("lastBurstCycleCount")
        \* now.getMinutes() * 60 + now.getSeconds()
        totalSeconds == wallClock % SECONDS_PER_HOUR
        currentQuarterHour == totalSeconds \div QUARTER_SECONDS
        secondsIntoQuarterHour == totalSeconds % QUARTER_SECONDS
        state0 == IF fresh
                  THEN ("lastBurstCycleCount" :> 0) @@ ("lastCycleTime" :> 0)
                        @@ ("lastQuarterHour" :> (0 - 1)) @@ modeState
                  ELSE modeState
        \* quarter-hour boundary crossing
        count1 == IF state0.lastQuarterHour # (0 - 1)
                        /\ currentQuarterHour # state0.lastQuarterHour
                  THEN 0 ELSE state0.lastBurstCycleCount
        cycleTime == t % cycleDuration
        \* animation cycle completion
        count2 == IF cycleTime < state0.lastCycleTime
                  THEN IF secondsIntoQuarterHour < BURST_WINDOW_SECONDS
                       THEN count1 + 1 ELSE 0
                  ELSE count1
        newIntensity == IF secondsIntoQuarterHour < BURST_WINDOW_SECONDS
                            /\ count2 < BURST_REALTIME_CYCLES
                        THEN Internal(highBrightness)
                        ELSE Internal(lowBrightness)
    IN  /\ modeState' = [state0 EXCEPT !["lastBurstCycleCount"] = count2,
                                       !["lastQuarterHour"] = currentQuarterHour,
                                       !["lastCycleTime"] = cycleTime]
        /\ PEAK_INTENSITY' = newIntensity
        /\ SetLightIntensities(SequentialFlash(t, newIntensity))

\* ------------------------------------------------------------------------
\* update(deltaTime)
\* ------------------------------------------------------------------------

\* deltaTime * this.speedMultiplier, for the deltaTime the tick grid holds
Advance(deltaTime) == (deltaTime * speedMultiplier) \div 10

OnGrid(deltaTime) == (deltaTime * speedMultiplier) % 10 = 0

\* Mutant: a mode name the switch does not know writes no fixture.
Dispatch_UnknownDoesNothing(t) ==
    CASE animationMode = "sequential" -> updateSequential(t)
      [] animationMode = "blink-all" -> updateBlinkAll(t)
      [] animationMode = "fast-runs" -> updateFastRuns(t)
      [] animationMode = "ping-pong" -> updatePingPong(t)
      [] animationMode = "ping-pong-fast" -> updatePingPongFast(t)
      [] animationMode = "random" -> updateRandom(t)
      [] animationMode = "converge-center" -> updateConvergeCenter(t)
      [] animationMode = "converge-point" -> updateConvergePoint(t)
      [] animationMode = "diverge-center" -> updateDivergeCenter(t)
      [] animationMode = "diverge-point" -> updateDivergePoint(t)
      [] animationMode = "brightness-burst" -> updateBrightnessBurst(t)
      [] animationMode = "brightness-burst-realtime" -> updateBrightnessBurstRealtime(t)
      [] OTHER -> UNCHANGED <<modeState, PEAK_INTENSITY, outputs>>

Dispatch(t) ==
    CASE animationMode = "sequential" -> updateSequential(t)
      [] animationMode = "blink-all" -> updateBlinkAll(t)
      [] animationMode = "fast-runs" -> updateFastRuns(t)
      [] animationMode = "ping-pong" -> updatePingPong(t)
      [] animationMode = "ping-pong-fast" -> updatePingPongFast(t)
      [] animationMode = "random" -> updateRandom(t)
      [] animationMode = "converge-center" -> updateConvergeCenter(t)
      [] animationMode = "converge-point" -> updateConvergePoint(t)
      [] animationMode = "diverge-center" -> updateDivergeCenter(t)
      [] animationMode = "diverge-point" -> updateDivergePoint(t)
      [] animationMode = "brightness-burst" -> updateBrightnessBurst(t)
      [] animationMode = "brightness-burst-realtime" -> updateBrightnessBurstRealtime(t)
      [] OTHER -> updateSequential(t)

\* The update reaches updateBrightnessBurstRealtime
RunsRealtime ==
    /\ ~allLightsOn
    /\ enabled
    /\ animationMode = "brightness-burst-realtime"

\* Mutant: the enabled test comes before the all-lights-on test.
update_DisabledFirst(deltaTime) ==
    /\ lastCall' = "update"
    /\ lastArg' = ""
    /\ UNCHANGED <<params, timeOfDayPreset, wallClock>>
    /\ clockAtUpdate' = IF RunsRealtime THEN wallClock ELSE clockAtUpdate
    /\ IF ~enabled
       THEN UNCHANGED <<currentTime, modeState, PEAK_INTENSITY, outputs>>
       ELSE IF allLightsOn
       THEN /\ setAllLightsIntensity(PEAK_INTENSITY)
            /\ UNCHANGED <<currentTime, modeState, PEAK_INTENSITY>>
       ELSE /\ currentTime' = currentTime + Advance(deltaTime)
            /\ Dispatch(currentTime + Advance(deltaTime))

update(deltaTime) ==
    /\ lastCall' = "update"
    /\ lastArg' = ""
    /\ UNCHANGED <<params, timeOfDayPreset, wallClock>>
    /\ clockAtUpdate' = IF RunsRealtime THEN wallClock ELSE clockAtUpdate
    /\ IF allLightsOn
       THEN /\ setAllLightsIntensity(PEAK_INTENSITY)
            /\ UNCHANGED <<currentTime, modeState, PEAK_INTENSITY>>
       ELSE IF ~enabled
       THEN UNCHANGED <<currentTime, modeState, PEAK_INTENSITY, outputs>>
       ELSE /\ currentTime' = currentTime + Advance(deltaTime)
            /\ Dispatch(currentTime + Advance(deltaTime))

\* ------------------------------------------------------------------------
\* The mutators
\* ------------------------------------------------------------------------

BoolName(b) == IF b THEN "true" ELSE "false"

\* Mutant: the lights are left as they are.
setEnabled_KeepLights(value) ==
    /\ enabled' = value
    /\ lastCall' = "setEnabled"
    /\ lastArg' = BoolName(value)
    /\ UNCHANGED <<currentTime, modeState, PEAK_INTENSITY, speedMultiplier, allLightsOn,
                   animationMode, convergencePoint, divergencePoint, lowBrightness,
                   highBrightness, timeOfDayPreset, clock, cameraVars, outputs>>

setEnabled(value) ==
    /\ enabled' = value
    /\ lastCall' = "setEnabled"
    /\ lastArg' = BoolName(value)
    /\ IF ~value
       THEN lights' = [k \in 1 .. NUM_LIGHTS |->
                        [lights[k] EXCEPT !.intensity = 0, !.glowOpacity = 0,
                                          !.bulbOpacity = 0]]
       ELSE UNCHANGED outputs
    /\ UNCHANGED <<currentTime, modeState, PEAK_INTENSITY, speedMultiplier, allLightsOn,
                   animationMode, convergencePoint, divergencePoint, lowBrightness,
                   highBrightness, timeOfDayPreset, clock, cameraVars>>

reset ==
    /\ currentTime' = 0
    /\ lastCall' = "reset"
    /\ lastArg' = ""
    /\ UNCHANGED <<modeState, PEAK_INTENSITY, params, outputs, timeOfDayPreset, clock, cameraVars>>

setAllLightsOn(on) ==
    /\ allLightsOn' = on
    /\ lastCall' = "setAllLightsOn"
    /\ lastArg' = BoolName(on)
    /\ IF ~on THEN setAllLightsIntensity(0) ELSE UNCHANGED outputs
    /\ UNCHANGED <<currentTime, modeState, PEAK_INTENSITY, enabled, speedMultiplier,
                   animationMode, convergencePoint, divergencePoint, lowBrightness,
                   highBrightness, timeOfDayPreset, clock, cameraVars>>

\* Mutant: a mode change restores the constructor's peak intensity.
setAnimationMode_ResetsPeak(mode) ==
    /\ animationMode' = mode
    /\ currentTime' = 0
    /\ modeState' = EmptyModeState
    /\ PEAK_INTENSITY' = DEFAULT_PEAK_INTENSITY
    /\ timeOfDayPreset' = IF mode \in {"brightness-burst", "brightness-burst-realtime"}
                          THEN "night" ELSE timeOfDayPreset
    /\ lastCall' = "setAnimationMode"
    /\ lastArg' = mode
    /\ UNCHANGED <<enabled, speedMultiplier, allLightsOn, convergencePoint,
                   divergencePoint, lowBrightness, highBrightness, clock, cameraVars, outputs>>

\* Mutant: choosing the mode already active changes nothing.
setAnimationMode_SameModeKept(mode) ==
    /\ animationMode' = mode
    /\ currentTime' = IF mode = animationMode THEN currentTime ELSE 0
    /\ modeState' = IF mode = animationMode THEN modeState ELSE EmptyModeState
    /\ timeOfDayPreset' = IF mode \in {"brightness-burst", "brightness-burst-realtime"}
                          THEN "night" ELSE timeOfDayPreset
    /\ lastCall' = "setAnimationMode"
    /\ lastArg' = mode
    /\ UNCHANGED <<PEAK_INTENSITY, enabled, speedMultiplier, allLightsOn, convergencePoint,
                   divergencePoint, lowBrightness, highBrightness, clock, cameraVars, outputs>>

setAnimationMode(mode) ==
    /\ animationMode' = mode
    /\ currentTime' = 0
    /\ modeState' = EmptyModeState
    \* this.timeOfDayController is set in main.js
    /\ timeOfDayPreset' = IF mode \in {"brightness-burst", "brightness-burst-realtime"}
                          THEN "night" ELSE timeOfDayPreset
    /\ lastCall' = "setAnimationMode"
    /\ lastArg' = mode
    /\ UNCHANGED <<PEAK_INTENSITY, enabled, speedMultiplier, allLightsOn, convergencePoint,
                   divergencePoint, lowBrightness, highBrightness, clock, cameraVars, outputs>>

\* getAvailableModes(): the ids
AvailableModes ==
    {"sequential", "blink-all", "fast-runs", "ping-pong", "ping-pong-fast", "random",
     "converge-center", "converge-point", "diverge-center", "diverge-point",
     "brightness-burst", "brightness-burst-realtime"}

\* ------------------------------------------------------------------------
\* Sequential mode on the full tick grid
\* ------------------------------------------------------------------------
MaxFineTime == 56000

\* update(0.1522): 0.1522 s lies between these two ticks
Delta01522Lo == (1522 * TicksPerSecond) \div 10000
Delta01522Hi == Delta01522Lo + 1

FineDeltas == {1, FLASH_DURATION \div 2, Delta01522Lo, timeBetweenLights,
               timeBetweenLights + FLASH_DURATION \div 2, cycleDuration - 1}

UpdateFine ==
    \E d \in FineDeltas :
        /\ OnGrid(d)
        /\ currentTime + Advance(d) <= MaxFineTime
        /\ update(d)
        /\ UNCHANGED cameraVars

NextSequential == UpdateFine

SpecSequential == Init /\ [][NextSequential]_vars

\* ------------------------------------------------------------------------
\* getCurrentWavePosition() and the fixture layout
\* ------------------------------------------------------------------------

\* Positions are numerators over PosDen feet.
PosDen == 2 * timeBetweenLights

\* Ticks in which the wave travels one foot (1 / EARTH_ROTATION_SPEED s).
TicksPerFoot == TicksPerSecond \div EARTH_ROTATION_SPEED

\* main.js: TOTAL_LENGTH = (NUM_LIGHTS - 1) * LIGHT_SPACING
TOTAL_LENGTH == (NUM_LIGHTS - 1) * LIGHT_SPACING

\* main.js: z = -TOTAL_LENGTH / 2 + (i * LIGHT_SPACING)
FixturePosition(i) == (2 * i * LIGHT_SPACING - TOTAL_LENGTH) * timeBetweenLights

\* Mutant: the cycle time is not wrapped.
wavePositionAt_NoWrap(t, isEnabled) ==
    IF ~isEnabled THEN 0
    ELSE (0 - (NUM_LIGHTS - 1) * LIGHT_SPACING) * timeBetweenLights
            + 2 * t * LIGHT_SPACING

\* Mutant: the installation length counts one spacing per fixture.
wavePositionAt_LongLine(t, isEnabled) ==
    IF ~isEnabled THEN 0
    ELSE (0 - NUM_LIGHTS * LIGHT_SPACING) * timeBetweenLights
            + 2 * (t % cycleDuration) * LIGHT_SPACING

\* Mutant: the position is reported while the animation is disabled as well.
wavePositionAt_IgnoresEnabled(t, isEnabled) ==
    LET cycleTime == t % cycleDuration
        TOTAL == (NUM_LIGHTS - 1) * LIGHT_SPACING
    IN  (0 - TOTAL) * timeBetweenLights + 2 * cycleTime * LIGHT_SPACING

\* getCurrentWavePosition() with this.currentTime = t, this.enabled = isEnabled
wavePositionAt(t, isEnabled) ==
    IF ~isEnabled THEN 0
    ELSE LET cycleTime == t % cycleDuration
             \* currentLightIndex = cycleTime / timeBetweenLights, so
             \* currentLightIndex * LIGHT_SPACING = cycleTime * LIGHT_SPACING / timeBetweenLights
             TOTAL == (NUM_LIGHTS - 1) * LIGHT_SPACING
         IN  (0 - TOTAL) * timeBetweenLights + 2 * cycleTime * LIGHT_SPACING

getCurrentWavePosition == wavePositionAt(currentTime, enabled)

\* ------------------------------------------------------------------------
\* Claims on sequential mode and on the wave position (SpecSequential)
\* ------------------------------------------------------------------------

PeakLight == PEAK_INTENSITY * CurveDen

\* The time since fixture i's trigger, wrapped into [0, cycleDuration)
SinceTrigger(i) == (currentTime - i * timeBetweenLights) % cycleDuration

C2_AsStated ==
    [][(currentTime = 0 /\ lastCall' = "update"
            /\ currentTime' \in {Delta01522Lo, Delta01522Hi})
        => (intensity(1)' = PeakLight /\ intensity(0)' = 0)]_vars

\* C2 amended: one update(0.1522) from currentTime = 0 leaves fixture 0 and
\* fixture 1 both at zero (0.1522 s is past fixture 0's window and not past
\* fixture 1's trigger at 176/1156 s, where its flash starts from zero);
\* fixture 1 is at peak after one update(176/1156 + 0.025) instead.
C2_Amended ==
    [][(currentTime = 0 /\ lastCall' = "update" /\ animationMode = "sequential")
        => /\ currentTime' \in {Delta01522Lo, Delta01522Hi}
                => (intensity(0)' = 0 /\ intensity(1)' = 0)
           /\ currentTime' = timeBetweenLights + FLASH_DURATION \div 2
                => (intensity(0)' = 0 /\ intensity(1)' = PeakLight)]_vars

\* C2 witness: the state one update(0.1522) from currentTime = 0 leads to.
C2_Witness ==
    /\ lastCall = "update"
    /\ currentTime = Delta01522Lo
    /\ speedMultiplier = 10
    /\ animationMode = "sequential"
    /\ \A i \in Fixtures : intensity(i) = 0

\* C6: while enabled, the wave position is periodic with period
\* cycleDuration, is the first fixture's position at currentTime = 0 and the
\* last fixture's position at currentTime = cycleDuration * (N-1) / N.
C6_WavePeriodic ==
    enabled =>
        /\ wavePositionAt(currentTime + cycleDuration, enabled) = getCurrentWavePosition
        /\ currentTime = 0 => getCurrentWavePosition = FixturePosition(0)
        /\ currentTime = (cycleDuration * (NUM_LIGHTS - 1)) \div NUM_LIGHTS
                => getCurrentWavePosition = FixturePosition(NUM_LIGHTS - 1)

\* C6 witness: the front at the last fixture.
C6_Witness ==
    /\ enabled
    /\ lastCall = "update"
    /\ currentTime = (cycleDuration * (NUM_LIGHTS - 1)) \div NUM_LIGHTS
    /\ getCurrentWavePosition = FixturePosition(NUM_LIGHTS - 1)
    /\ getCurrentWavePosition > 0

\* C7 as stated: an update that advances currentTime by delta moves the wave
\* position by at most EARTH_ROTATION_SPEED * delta.
C7_AsStated ==
    [][(lastCall' = "update" /\ enabled)
        => Abs(getCurrentWavePosition' - getCurrentWavePosition) * TicksPerFoot
                <= (currentTime' - currentTime) * PosDen]_vars

\* The number of cycle boundaries between two times
Crossed(t1, t2) == (t2 \div cycleDuration) - (t1 \div cycleDuration)

\* C7 amended: the wave position is continuous within a cycle only: an update
\* that advances currentTime by delta without crossing a multiple of
\* cycleDuration moves it forward by exactly EARTH_ROTATION_SPEED * delta, and
\* every cycle boundary crossed sets it back by NUM_LIGHTS * LIGHT_SPACING.
C7_Amended ==
    [][(lastCall' = "update" /\ enabled)
        => (getCurrentWavePosition' - getCurrentWavePosition) * TicksPerFoot
            = (currentTime' - currentTime) * PosDen
              - Crossed(currentTime, currentTime')
                    * NUM_LIGHTS * LIGHT_SPACING * PosDen * TicksPerFoot]_vars

\* C7 witness: just after a cycle boundary the front is back at the start.
C7_Witness ==
    /\ enabled
    /\ lastCall = "update"
    /\ currentTime \div cycleDuration = 1
    /\ currentTime % cycleDuration < timeBetweenLights
    /\ getCurrentWavePosition < FixturePosition(1)

\* ------------------------------------------------------------------------
\* Brightness-burst mode driven by updates shorter than a cycle (SpecBurst)
\* ------------------------------------------------------------------------
MaxBurstCycles == 9

\* A third of a cycle, a third of a cycle and half a flash, and one tick
\* short of a whole cycle
BurstDeltas == {cycleDuration \div 3,
                cycleDuration \div 3 + FLASH_DURATION \div 2,
                cycleDuration - 1}

ActivateBurst == setAnimationMode("brightness-burst")

UpdateBurst ==
    \E d \in BurstDeltas :
        /\ animationMode = "brightness-burst"
        /\ OnGrid(d)
        /\ currentTime + Advance(d) <= MaxBurstCycles * cycleDuration
        /\ update(d)
        /\ UNCHANGED cameraVars

NextBurst == ActivateBurst \/ UpdateBurst

SpecBurst == Init /\ [][NextBurst]_vars

\* The cycles completed since the mode was activated
CyclesCompleted == currentTime \div cycleDuration

\* The peak the 5-dim / 3-bright pattern gives the cycle in progress
PatternPeak ==
    IF CyclesCompleted % BURST_TOTAL_CYCLES < BURST_DIM_CYCLES
    THEN Internal(lowBrightness)
    ELSE Internal(highBrightness)

\* C3: in brightness-burst mode driven only by updates shorter than a cycle,
\* the peak in use after every update is lowBrightness/200 in cycles 1..5 of
\* each group of 8 counted from the activation and highBrightness/200 in
\* cycles 6..8, and the fixtures are written with that peak.
C3_BurstPattern ==
    (animationMode = "brightness-burst" /\ lastCall = "update") =>
        /\ PEAK_INTENSITY = PatternPeak
        /\ modeState.cycleCount = CyclesCompleted % BURST_TOTAL_CYCLES
        /\ \A i \in Fixtures :
                intensity(i) = SequentialFlash(currentTime, PatternPeak)[i].intensity

\* C3 witness: the ninth cycle is dim again, after three bright ones, with a
\* fixture lit.
C3_Witness ==
    /\ animationMode = "brightness-burst"
    /\ lastCall = "update"
    /\ CyclesCompleted = BURST_TOTAL_CYCLES
    /\ PEAK_INTENSITY = Internal(lowBrightness)
    /\ PEAK_INTENSITY # Internal(highBrightness)
    /\ \E i \in Fixtures : intensity(i) = PeakLight

\* ------------------------------------------------------------------------
\* Ping-pong mode on the full tick grid (SpecPingPong)
\* ------------------------------------------------------------------------
MaxPingPongTime == 109000

ActivatePingPong == setAnimationMode("ping-pong")

UpdatePingPong ==
    \E d \in FineDeltas :
        /\ animationMode = "ping-pong"
        /\ OnGrid(d)
        /\ currentTime + Advance(d) <= MaxPingPongTime
        /\ update(d)
        /\ UNCHANGED cameraVars

NextPingPong == ActivatePingPong \/ UpdatePingPong

SpecPingPong == Init /\ [][NextPingPong]_vars

\* The time within the ping-pong super-cycle of 2 * cycleDuration
SuperCycleTime == currentTime % (2 * cycleDuration)

\* C4: in ping-pong mode, at super-cycle time u < cycleDuration the
\* intensities are those of sequential mode at cycle time u, and at
\* super-cycle time cycleDuration + u they are those of the forward pass at
\* time cycleDuration - u.
C4_PingPongMirror ==
    (animationMode = "ping-pong" /\ lastCall = "update") =>
        IF SuperCycleTime < cycleDuration
        THEN \A i \in Fixtures :
                intensity(i) = SequentialFlash(SuperCycleTime, PEAK_INTENSITY)[i].intensity
        ELSE LET u == SuperCycleTime - cycleDuration
             IN  \A i \in Fixtures :
                    /\ intensity(i)
                        = PingPongFlash(cycleDuration - u, PEAK_INTENSITY)[i].intensity
                    /\ u > 0 => intensity(i)
                        = SequentialFlash(cycleDuration - u, PEAK_INTENSITY)[i].intensity

\* C4 witness: in the reverse pass a fixture other than the first is at peak.
C4_Witness ==
    /\ animationMode = "ping-pong"
    /\ lastCall = "update"
    /\ SuperCycleTime > cycleDuration
    /\ \E i \in Fixtures \ {0} : intensity(i) = PeakLight

\* ------------------------------------------------------------------------
\* Random mode (SpecRandom)
\* ------------------------------------------------------------------------
MaxRandomSlots == 3

RandomDeltas == {FLASH_DURATION \div 2, timeBetweenLights}

ActivateRandom == setAnimationMode("random")

UpdateRandom ==
    \E d \in RandomDeltas :
        /\ animationMode = "random"
        /\ OnGrid(d)
        /\ currentTime + Advance(d) <= MaxRandomSlots * timeBetweenLights
        /\ update(d)
        /\ UNCHANGED cameraVars

NextRandom == ActivateRandom \/ UpdateRandom

SpecRandom == Init /\ [][NextRandom]_vars

\* seq holds every fixture index exactly once
IsBijection(seq) ==
    /\ Len(seq) = NUM_LIGHTS
    /\ \A i \in Fixtures : Cardinality({k \in 1 .. Len(seq) : seq[k] = i}) = 1

\* C5: whenever modeState.randomSequence exists it is a bijection over
\* 0..N-1 (every fixture has exactly one trigger slot), and update() never
\* alters a sequence that exists.
C5_RandomBijection ==
    /\ [](Has("randomSequence") => IsBijection(modeState.randomSequence))
    /\ [][(Has("randomSequence") /\ lastCall' = "update")
            => /\ "randomSequence" \in DOMAIN modeState'
               /\ modeState'.randomSequence = modeState.randomSequence]_vars

\* C5 witness: a shuffled sequence in use for a second update.
C5_Witness ==
    /\ animationMode = "random"
    /\ lastCall = "update"
    /\ Has("randomSequence")
    /\ modeState.randomSequence # Identity
    /\ currentTime > timeBetweenLights
    /\ \E i \in Fixtures : intensity(i) = PeakLight

\* ------------------------------------------------------------------------
\* Converge-center and diverge-center (SpecCenter)
\* ------------------------------------------------------------------------
MaxCenterSlots == 16

CenterDeltas == {FLASH_DURATION \div 2, timeBetweenLights}

ActivateCenter == \E m \in {"converge-center", "diverge-center"} : setAnimationMode(m)

UpdateCenter ==
    \E d \in CenterDeltas :
        /\ animationMode \in {"converge-center", "diverge-center"}
        /\ OnGrid(d)
        /\ currentTime + Advance(d) <= MaxCenterSlots * timeBetweenLights
        /\ update(d)
        /\ UNCHANGED cameraVars

NextCenter == ActivateCenter \/ UpdateCenter

SpecCenter == Init /\ [][NextCenter]_vars

\* The sum of a fixture's trigger offsets in the two center modes
OffsetSum(i) == DivergeCenterOffset(i) + ConvergeCenterOffset(i)

\* C8 as stated: converge-center and diverge-center are complements: whenever
\* an update has run either of them, divergeOffset(i) + convergeOffset(i) is
\* the same for every fixture i.
C8_AsStated ==
    (lastCall = "update" /\ animationMode \in {"converge-center", "diverge-center"})
        => \A i, j \in Fixtures : OffsetSum(i) = OffsetSum(j)

\* ------------------------------------------------------------------------
\* The engine under its mutators (Spec)
\* ------------------------------------------------------------------------
\* The cap on currentTime, in ticks: one timeBetweenLights
MaxCoarseTime == 1760

CoarseDeltas == {FLASH_DURATION \div 2, timeBetweenLights}

\* The mode names handed to setAnimationMode: the default mode, the two
\* modes that keep data in modeState, and a name update() does not know.
Modes == {"sequential", "random", "brightness-burst", "no-such-mode"}

Update ==
    \E d \in CoarseDeltas :
        /\ OnGrid(d)
        /\ currentTime + Advance(d) <= MaxCoarseTime
        /\ update(d)
        /\ UNCHANGED cameraVars

SetAnimationMode == \E m \in Modes : setAnimationMode(m)

SetEnabled == \E b \in BOOLEAN : setEnabled(b)

SetAllLightsOn == \E b \in BOOLEAN : setAllLightsOn(b)

Reset == reset

Next == Update \/ SetAnimationMode \/ SetEnabled \/ SetAllLightsOn \/ Reset

Spec == Init /\ [][Next]_vars

\* C9: after setAnimationMode(m) returns, animationMode = m, currentTime = 0
\* and modeState is empty, whatever the state before the call, also when m
\* was the active mode already.
C9_ModeChangeClears ==
    lastCall = "setAnimationMode" =>
        /\ animationMode = lastArg
        /\ currentTime = 0
        /\ modeState = EmptyModeState
        /\ DOMAIN modeState = {}

\* C9 witness: random mode chosen after the engine ran (a fixture is still
\* lit from an earlier update).
C9_Witness ==
    /\ lastCall = "setAnimationMode"
    /\ lastArg = "random"
    /\ animationMode = "random"
    /\ modeState = EmptyModeState
    /\ \E i \in Fixtures : intensity(i) > 0

\* C10: right after setEnabled(false) or setAllLightsOn(false) returns every
\* fixture's intensity, glow opacity and bulb opacity are 0.
C10_OffIsImmediate ==
    (lastCall \in {"setEnabled", "setAllLightsOn"} /\ lastArg = "false") =>
        \A i \in Fixtures :
            intensity(i) = 0 /\ glowOpacity(i) = 0 /\ bulbOpacity(i) = 0

\* C10 witness: setEnabled(false) returned with a fixture lit before the
\* call (its accent spotlight, which the call does not write, is still on).
C10_Witness ==
    /\ lastCall = "setEnabled"
    /\ lastArg = "false"
    /\ ~enabled
    /\ \E i \in Fixtures : spotIntensity(i) > 0 /\ intensity(i) = 0

\* C11: an update leaves currentTime and modeState unchanged whenever
\* allLightsOn is true or enabled is false; with allLightsOn true it sets
\* every fixture to PEAK_INTENSITY whatever enabled and animationMode are, and
\* with only enabled false it changes no fixture output.
C11_UpdateFrame ==
    [][lastCall' = "update" =>
        /\ (allLightsOn \/ ~enabled)
                => (currentTime' = currentTime /\ modeState' = modeState)
        /\ allLightsOn
                => \A i \in Fixtures :
                    /\ lights'[i + 1].intensity = PEAK_INTENSITY * CurveDen
                    /\ lights'[i + 1].glowOpacity = PEAK_OPACITY_TENTHS * CurveDen
                    /\ lights'[i + 1].bulbOpacity = PEAK_BULB_OPACITY_TENTHS * CurveDen
        /\ (~allLightsOn /\ ~enabled) => lights' = lights]_vars

\* C11 witness: an update in all-lights-on mode with the engine disabled, in
\* random mode with its sequence drawn earlier: every fixture is at peak.
C11_Witness ==
    /\ lastCall = "update"
    /\ allLightsOn
    /\ ~enabled
    /\ animationMode = "random"
    /\ Has("randomSequence")
    /\ currentTime > 0
    /\ \A i \in Fixtures : intensity(i) = PeakLight

\* ------------------------------------------------------------------------
\* The speed multiplier and the speed keys (SpecSpeed)
\* ------------------------------------------------------------------------

\* Mutant: the multiplier is stored as given.
setSpeedMultiplier_NoClamp(multiplier) ==
    /\ speedMultiplier' = multiplier
    /\ lastCall' = "setSpeedMultiplier"
    /\ lastArg' = ToString(multiplier)
    /\ UNCHANGED <<currentTime, modeState, PEAK_INTENSITY, enabled, allLightsOn,
                   animationMode, convergencePoint, divergencePoint, lowBrightness,
                   highBrightness, timeOfDayPreset, clock, cameraVars, outputs>>

\* setSpeedMultiplier(multiplier), multiplier in tenths:
\* Math.max(0.1, Math.min(10.0, multiplier))
setSpeedMultiplier(multiplier) ==
    /\ speedMultiplier' = Max(1, Min(100, multiplier))
    /\ lastCall' = "setSpeedMultiplier"
    /\ lastArg' = ToString(multiplier)
    /\ UNCHANGED <<currentTime, modeState, PEAK_INTENSITY, enabled, allLightsOn,
                   animationMode, convergencePoint, divergencePoint, lowBrightness,
                   highBrightness, timeOfDayPreset, clock, cameraVars, outputs>>

\* controls.js, keys ArrowUp, + and =
KeySpeedUp == setSpeedMultiplier(Min(100, speedMultiplier + 5))

\* controls.js, keys ArrowDown, - and _
KeySpeedDown == setSpeedMultiplier(Max(1, speedMultiplier - 5))

\* controls.js, key 1
KeyRealTime == setSpeedMultiplier(10)

\* controls.js, key 0
KeySlowMotion == setSpeedMultiplier(1)

\* The multipliers handed to setSpeedMultiplier, in tenths
SpeedInputs == {0 - 10, 0, 1, 4, 10, 100, 105, 500}

SetSpeedMultiplier == \E x \in SpeedInputs : setSpeedMultiplier(x)

\* The cap on currentTime, in ticks
MaxSpeedTime == 6000

\* A frame of a quarter of a second: it advances currentTime by
\* FLASH_DURATION / 2 ticks for each tenth of the multiplier.
UpdateSpeed ==
    /\ OnGrid(10 * (FLASH_DURATION \div 2))
    /\ currentTime + Advance(10 * (FLASH_DURATION \div 2)) <= MaxSpeedTime
    /\ update(10 * (FLASH_DURATION \div 2))
    /\ UNCHANGED cameraVars

NextSpeed ==
    \/ SetSpeedMultiplier
    \/ KeySpeedUp
    \/ KeySpeedDown
    \/ KeyRealTime
    \/ KeySlowMotion
    \/ UpdateSpeed

SpecSpeed == Init /\ [][NextSpeed]_vars

\* C12: speedMultiplier always lies in [0.1, 10.0], and setSpeedMultiplier(x)
\* stores x clamped to that range: 0.1 for x below it (0 gives 0.1), 10.0 for
\* x above it (50 gives 10.0), x itself otherwise; no call leaves the
\* multiplier as it was unless that is the clamped value.
C12_SpeedClamped ==
    /\ [](1 <= speedMultiplier /\ speedMultiplier <= 100)
    /\ [][lastCall' = "setSpeedMultiplier" =>
            \E x \in (0 - 10) .. 500 :
                /\ lastArg' = ToString(x)
                /\ x < 1 => speedMultiplier' = 1
                /\ x > 100 => speedMultiplier' = 100
                /\ (1 <= x /\ x <= 100) => speedMultiplier' = x]_vars

\* C12 witness: setSpeedMultiplier(50) returned with the multiplier at 10.0,
\* after the engine ran at another speed.
C12_Witness ==
    /\ lastCall = "setSpeedMultiplier"
    /\ lastArg = "500"
    /\ speedMultiplier = 100
    /\ currentTime > 0
    /\ currentTime % (10 * (FLASH_DURATION \div 2)) # 0

\* ------------------------------------------------------------------------
\* CameraController: setPreset and teleportToPosition
\* ------------------------------------------------------------------------

cameraHistory == <<teleports, walked>>

\* Mutant: a key CameraPresets does not hold ends the transition in flight.
setPreset_UnknownEndsTransition(presetKey, animate) ==
    /\ lastCameraCall' = "setPreset"
    /\ lastPresetKey' = presetKey
    /\ UNCHANGED <<cameraHistory, lastKey, keysHeld, wavePosition, moveState, isJumping,
                   verticalVelocity, transitionDuration, transitionToEuler, transitionFromEuler>>
    /\ IF presetKey \notin PresetKeys
       THEN /\ isTransitioning' = FALSE
            /\ UNCHANGED <<currentPreset, isFollowingWave, isWalkingMode, controlsEnabled,
                        sinceTransitionStart, transitionFromPos,
                        transitionFromTarget, transitionFromFov, transitionToPos,
                        transitionToTarget, transitionToFov, cameraPosition,
                        controlsTarget, cameraFov, euler>>
       ELSE LET preset == CameraPresets[presetKey]
            IN  /\ currentPreset' = presetKey
                /\ isFollowingWave' = preset.isFollowing
                /\ isWalkingMode' = preset.isWalking
                /\ controlsEnabled' = ~preset.isWalking
                /\ IF animate /\ ~isTransitioning
                   THEN \* start transition
                        /\ isTransitioning' = TRUE
                        /\ sinceTransitionStart' = 0
                        /\ transitionFromPos' = cameraPosition
                        /\ transitionFromTarget' = controlsTarget
                        /\ transitionFromFov' = cameraFov
                        /\ transitionToPos' = preset.position
                        /\ transitionToTarget' = preset.target
                        /\ transitionToFov' = preset.fov
                        /\ UNCHANGED <<cameraPosition, controlsTarget, cameraFov, euler>>
                   ELSE \* instant transition
                        /\ cameraPosition' = preset.position
                        /\ controlsTarget' = preset.target
                        /\ cameraFov' = preset.fov
                        /\ euler' = IF preset.isWalking THEN LookEuler(presetKey) ELSE euler
                        /\ UNCHANGED <<isTransitioning, sinceTransitionStart,
                                       transitionFromPos, transitionFromTarget,
                                       transitionFromFov, transitionToPos,
                                       transitionToTarget, transitionToFov>>

\* setPreset(presetKey, animate)
setPreset(presetKey, animate) ==
    /\ lastCameraCall' = "setPreset"
    /\ lastPresetKey' = presetKey
    /\ UNCHANGED <<cameraHistory, lastKey, keysHeld, wavePosition, moveState, isJumping,
                   verticalVelocity, transitionDuration, transitionToEuler, transitionFromEuler>>
    /\ IF presetKey \notin PresetKeys
       THEN UNCHANGED <<currentPreset, isFollowingWave, isWalkingMode, controlsEnabled,
                        isTransitioning, sinceTransitionStart, transitionFromPos,
                        transitionFromTarget, transitionFromFov, transitionToPos,
                        transitionToTarget, transitionToFov, cameraPosition,
                        controlsTarget, cameraFov, euler>>
       ELSE LET preset == CameraPresets[presetKey]
            IN  /\ currentPreset' = presetKey
                /\ isFollowingWave' = preset.isFollowing
                /\ isWalkingMode' = preset.isWalking
                /\ controlsEnabled' = ~preset.isWalking
                /\ IF animate /\ ~isTransitioning
                   THEN \* start transition
                        /\ isTransitioning' = TRUE
                        /\ sinceTransitionStart' = 0
                        /\ transitionFromPos' = cameraPosition
                        /\ transitionFromTarget' = controlsTarget
                        /\ transitionFromFov' = cameraFov
                        /\ transitionToPos' = preset.position
                        /\ transitionToTarget' = preset.target
                        /\ transitionToFov' = preset.fov
                        /\ UNCHANGED <<cameraPosition, controlsTarget, cameraFov, euler>>
                   ELSE \* instant transition
                        /\ cameraPosition' = preset.position
                        /\ controlsTarget' = preset.target
                        /\ cameraFov' = preset.fov
                        /\ euler' = IF preset.isWalking THEN LookEuler(presetKey) ELSE euler
                        /\ UNCHANGED <<isTransitioning, sinceTransitionStart,
                                       transitionFromPos, transitionFromTarget,
                                       transitionFromFov, transitionToPos,
                                       transitionToTarget, transitionToFov>>

\* Mutant: the teleport enters walking mode without leaving the mode it was in.
teleportToPosition_KeepMode(position, targetEuler, duration) ==
    LET \* if (!this.isWalkingMode) this.setPreset('WALKING', false)
        walking == CameraPresets["WALKING"]
        position1 == IF isWalkingMode THEN cameraPosition ELSE walking.position
        euler1 == IF isWalkingMode THEN euler ELSE LookEuler("WALKING")
        fov1 == IF isWalkingMode THEN cameraFov ELSE walking.fov
    IN  /\ lastCameraCall' = "teleportToPosition"
        /\ teleports' = teleports + 1
        /\ currentPreset' = IF isWalkingMode THEN currentPreset ELSE "WALKING"
        /\ isFollowingWave' = isFollowingWave
        /\ isWalkingMode' = TRUE
        /\ controlsEnabled' = controlsEnabled
        /\ cameraPosition' = position1
        /\ controlsTarget' = IF isWalkingMode THEN controlsTarget ELSE walking.target
        /\ cameraFov' = fov1
        /\ euler' = euler1
        /\ isTransitioning' = TRUE
        /\ sinceTransitionStart' = 0
        /\ transitionDuration' = duration
        /\ transitionFromPos' = position1
        /\ transitionToPos' = position
        /\ transitionToEuler' = targetEuler
        /\ transitionFromEuler' = euler1
        /\ transitionFromFov' = fov1
        /\ transitionToFov' = 75 * CamDen
        /\ UNCHANGED <<walked, lastKey, lastPresetKey, keysHeld, wavePosition, moveState, isJumping, verticalVelocity,
                       transitionFromTarget, transitionToTarget>>

\* teleportToPosition(position, targetEuler, duration)
teleportToPosition(position, targetEuler, duration) ==
    LET \* if (!this.isWalkingMode) this.setPreset('WALKING', false)
        walking == CameraPresets["WALKING"]
        position1 == IF isWalkingMode THEN cameraPosition ELSE walking.position
        euler1 == IF isWalkingMode THEN euler ELSE LookEuler("WALKING")
        fov1 == IF isWalkingMode THEN cameraFov ELSE walking.fov
    IN  /\ lastCameraCall' = "teleportToPosition"
        /\ teleports' = teleports + 1
        /\ currentPreset' = IF isWalkingMode THEN currentPreset ELSE "WALKING"
        /\ isFollowingWave' = IF isWalkingMode THEN isFollowingWave ELSE FALSE
        /\ isWalkingMode' = TRUE
        /\ controlsEnabled' = IF isWalkingMode THEN controlsEnabled ELSE FALSE
        /\ cameraPosition' = position1
        /\ controlsTarget' = IF isWalkingMode THEN controlsTarget ELSE walking.target
        /\ cameraFov' = fov1
        /\ euler' = euler1
        /\ isTransitioning' = TRUE
        /\ sinceTransitionStart' = 0
        /\ transitionDuration' = duration
        /\ transitionFromPos' = position1
        /\ transitionToPos' = position
        /\ transitionToEuler' = targetEuler
        /\ transitionFromEuler' = euler1
        /\ transitionFromFov' = fov1
        /\ transitionToFov' = 75 * CamDen
        /\ UNCHANGED <<walked, lastKey, lastPresetKey, keysHeld, wavePosition, moveState, isJumping, verticalVelocity,
                       transitionFromTarget, transitionToTarget>>

\* ------------------------------------------------------------------------
\* CameraController: update(deltaTime, wavePosition)
\* ------------------------------------------------------------------------

\* The cap at which the model stops counting the time since transitionStart;
\* update() reads it only through Math.min(elapsed / transitionDuration, 1).
MaxElapsed == 6

\* The eased progress t as a numerator over EaseDen(duration):
\* progress < 0.5 ? 2 * progress^2 : 1 - (-2 * progress + 2)^2 / 2,
\* with progress = Math.min(elapsed / duration, 1)
EaseDen(duration) == 2 * duration * duration

EaseNum(elapsed, duration) ==
    LET e == Min(elapsed, duration)
    IN  IF 2 * e < duration
        THEN 4 * e * e
        ELSE 2 * duration * duration - (2 * duration - 2 * e) * (2 * duration - 2 * e)

\* Mutant: the interpolation leaves the start value out.
Lerp_NoFrom(from, to, num, den) == ((to - from) * num) \div den

\* from + (to - from) * t for one component
Lerp(from, to, num, den) == from + ((to - from) * num) \div den

\* lerpVectors(from, to, t)
LerpVectors(from, to, num, den) ==
    [k \in 1 .. 3 |-> Lerp(from[k], to[k], num, den)]

\* The interpolation of one component is exact in units of 1 / CamDen
ExactLerp(from, to, num, den) == ((to - from) * num) % den = 0

\* The look direction of the branch "standard preset transition": the angles
\* of normalize(transitionToTarget - camera.position), tabulated per preset.
LookOf(position, target) ==
    LookEuler(CHOOSE k \in PresetKeys :
                /\ CameraPresets[k].position = position
                /\ CameraPresets[k].target = target)

\* The horizontal unit vectors this.direction can end as once rotated by
\* camera.quaternion, flattened and normalized.
Headings == {<<0, 0 - 1>>, <<0, 1>>, <<1, 0>>, <<0 - 1, 0>>}

\* this.direction before the rotation is not the zero vector
KeysPush ==
    \/ moveState.forward # moveState.backward
    \/ moveState.left # moveState.right

\* Mutant: the wave is followed during a transition as well.
FollowApplies_Always(transitioning) == isFollowingWave

\* this.isFollowingWave && !this.isTransitioning
FollowApplies(transitioning) == isFollowingWave /\ ~transitioning

\* Mutant: a transition ends only when the elapsed time exceeds its duration.
TransitionDone_Late(elapsed, duration) == elapsed > duration

\* this.transitionProgress >= 1
TransitionDone(elapsed, duration) == elapsed >= duration

\* deltaTime in quarter seconds, newWavePosition in 1 / CamDen feet, heading
\* the direction walking moves the camera in.
cameraUpdate(deltaTime, newWavePosition, heading) ==
    LET elapsed == Min(sinceTransitionStart + deltaTime, MaxElapsed)
        num == EaseNum(elapsed, transitionDuration)
        den == EaseDen(transitionDuration)
        done == TransitionDone(elapsed, transitionDuration)
        \* the transition block
        position1 == IF isTransitioning
                     THEN LerpVectors(transitionFromPos, transitionToPos, num, den)
                     ELSE cameraPosition
        target1 == IF isTransitioning
                   THEN LerpVectors(transitionFromTarget, transitionToTarget, num, den)
                   ELSE controlsTarget
        fov1 == IF isTransitioning
                THEN Lerp(transitionFromFov, transitionToFov, num, den)
                ELSE cameraFov
        euler1 == IF isTransitioning /\ transitionToEuler # Null
                  THEN <<Lerp(transitionFromEuler[1], transitionToEuler[1], num, den),
                         Lerp(transitionFromEuler[2], transitionToEuler[2], num, den),
                         euler[3]>>
                  ELSE euler
        ends == isTransitioning /\ done
        transitioning1 == isTransitioning /\ ~done
        euler2 == IF ends /\ isWalkingMode
                  THEN IF transitionToEuler # Null
                       THEN transitionToEuler
                       ELSE LookOf(position1, transitionToTarget)
                  ELSE euler1
        clearEuler == ends /\ isWalkingMode /\ transitionToEuler # Null
        \* the follow block
        follows == FollowApplies(transitioning1)
        position2 == IF follows
                     THEN <<0, 50 * CamDen, newWavePosition + 100 * CamDen>>
                     ELSE position1
        target2 == IF follows THEN <<0, 4 * CamDen, newWavePosition>> ELSE target1
        \* the walking block
        walks == isWalkingMode /\ ~transitioning1
        speed == WALK_SPEED * (IF moveState.running THEN RUN_SPEED_MULTIPLIER ELSE 1)
                    * ((deltaTime * CamDen) \div 4)
        moves == walks /\ KeysPush
        x3 == IF moves THEN position2[1] + heading[1] * speed ELSE position2[1]
        z3 == IF moves THEN position2[3] + heading[2] * speed ELSE position2[3]
        airborne == isJumping \/ position2[2] > GROUND_LEVEL * CamDen
        velocity3 == verticalVelocity - (GRAVITY * CamDen * deltaTime) \div 4
        y3 == position2[2] + (velocity3 * deltaTime) \div 4
        lands == y3 <= GROUND_LEVEL * CamDen
    IN  /\ lastCameraCall' = "update"
        /\ wavePosition' = newWavePosition
        /\ sinceTransitionStart' = elapsed
        /\ isTransitioning' = transitioning1
        /\ euler' = euler2
        /\ transitionToEuler' = IF clearEuler THEN Null ELSE transitionToEuler
        /\ transitionFromEuler' = IF clearEuler THEN Null ELSE transitionFromEuler
        /\ controlsTarget' = target2
        /\ cameraFov' = fov1
        /\ cameraPosition' =
                IF ~walks THEN position2
                ELSE IF airborne
                THEN <<x3, IF lands THEN GROUND_LEVEL * CamDen ELSE y3, z3>>
                ELSE <<x3, GROUND_LEVEL * CamDen, z3>>
        /\ isJumping' = IF walks /\ airborne /\ lands THEN FALSE ELSE isJumping
        /\ verticalVelocity' =
                IF walks /\ airborne
                THEN IF lands THEN 0 ELSE velocity3
                ELSE verticalVelocity
        /\ walked' = IF moves THEN walked + 1 ELSE walked
        /\ UNCHANGED <<teleports, lastKey, lastPresetKey, keysHeld, currentPreset,
                       isFollowingWave, isWalkingMode, controlsEnabled, moveState, transitionDuration, transitionFromPos,
                       transitionFromTarget, transitionFromFov, transitionToPos,
                       transitionToTarget, transitionToFov>>

\* Every interpolation of this update is exact in the model's units
ExactUpdate(deltaTime) ==
    LET elapsed == Min(sinceTransitionStart + deltaTime, MaxElapsed)
        num == EaseNum(elapsed, transitionDuration)
        den == EaseDen(transitionDuration)
    IN  isTransitioning =>
            /\ \A k \in 1 .. 3 :
                    /\ ExactLerp(transitionFromPos[k], transitionToPos[k], num, den)
                    /\ ExactLerp(transitionFromTarget[k], transitionToTarget[k], num, den)
            /\ ExactLerp(transitionFromFov, transitionToFov, num, den)
            /\ transitionToEuler # Null =>
                    \A k \in 1 .. 2 :
                        ExactLerp(transitionFromEuler[k], transitionToEuler[k], num, den)

\* The keys that have a flag in moveState
MoveKeys == {"w", "s", "a", "d", "shift"}

\* Mutant: Space gives the jump impulse in mid jump as well.
keydown_DoubleJump(key) ==
    /\ lastCameraCall' = "keydown"
    /\ lastKey' = key
    /\ keysHeld' = keysHeld \cup ({key} \cap MoveKeys)
    /\ moveState' =
            IF ~isWalkingMode THEN moveState
            ELSE CASE key = "w" -> [moveState EXCEPT !.forward = TRUE]
                   [] key = "s" -> [moveState EXCEPT !.backward = TRUE]
                   [] key = "a" -> [moveState EXCEPT !.left = TRUE]
                   [] key = "d" -> [moveState EXCEPT !.right = TRUE]
                   [] key = "shift" -> [moveState EXCEPT !.running = TRUE]
                   [] OTHER -> moveState
    /\ isJumping' = IF isWalkingMode /\ key = " " THEN TRUE ELSE isJumping
    /\ verticalVelocity' = IF isWalkingMode /\ key = " "
                           THEN JUMP_SPEED * CamDen
                           ELSE verticalVelocity
    /\ UNCHANGED <<cameraHistory, lastPresetKey, currentPreset, isTransitioning, sinceTransitionStart,
                   transitionDuration, transitionFromPos, transitionFromTarget,
                   transitionToPos, transitionToTarget, transitionFromFov,
                   transitionToFov, isFollowingWave, wavePosition, isWalkingMode, euler,
                   transitionToEuler, transitionFromEuler, cameraPosition,
                   controlsTarget, cameraFov, controlsEnabled>>

\* keydown in setupWalkingControls
keydown(key) ==
    /\ lastCameraCall' = "keydown"
    /\ lastKey' = key
    /\ keysHeld' = keysHeld \cup ({key} \cap MoveKeys)
    /\ moveState' =
            IF ~isWalkingMode THEN moveState
            ELSE CASE key = "w" -> [moveState EXCEPT !.forward = TRUE]
                   [] key = "s" -> [moveState EXCEPT !.backward = TRUE]
                   [] key = "a" -> [moveState EXCEPT !.left = TRUE]
                   [] key = "d" -> [moveState EXCEPT !.right = TRUE]
                   [] key = "shift" -> [moveState EXCEPT !.running = TRUE]
                   [] OTHER -> moveState
    /\ isJumping' = IF isWalkingMode /\ key = " " THEN TRUE ELSE isJumping
    /\ verticalVelocity' = IF isWalkingMode /\ key = " " /\ ~isJumping
                           THEN JUMP_SPEED * CamDen
                           ELSE verticalVelocity
    /\ UNCHANGED <<cameraHistory, lastPresetKey, currentPreset, isTransitioning, sinceTransitionStart,
                   transitionDuration, transitionFromPos, transitionFromTarget,
                   transitionToPos, transitionToTarget, transitionFromFov,
                   transitionToFov, isFollowingWave, wavePosition, isWalkingMode, euler,
                   transitionToEuler, transitionFromEuler, cameraPosition,
                   controlsTarget, cameraFov, controlsEnabled>>

\* keyup in setupWalkingControls
keyup(key) ==
    /\ lastCameraCall' = "keyup"
    /\ lastKey' = key
    /\ keysHeld' = keysHeld \ {key}
    /\ moveState' =
            IF ~isWalkingMode THEN moveState
            ELSE CASE key = "w" -> [moveState EXCEPT !.forward = FALSE]
                   [] key = "s" -> [moveState EXCEPT !.backward = FALSE]
                   [] key = "a" -> [moveState EXCEPT !.left = FALSE]
                   [] key = "d" -> [moveState EXCEPT !.right = FALSE]
                   [] key = "shift" -> [moveState EXCEPT !.running = FALSE]
                   [] OTHER -> moveState
    /\ UNCHANGED <<cameraHistory, lastPresetKey, currentPreset, isTransitioning, sinceTransitionStart,
                   transitionDuration, transitionFromPos, transitionFromTarget,
                   transitionToPos, transitionToTarget, transitionFromFov,
                   transitionToFov, isFollowingWave, wavePosition, isWalkingMode, euler,
                   transitionToEuler, transitionFromEuler, isJumping, verticalVelocity,
                   cameraPosition, controlsTarget, cameraFov, controlsEnabled>>

\* ------------------------------------------------------------------------
\* The camera under its callers (SpecCamera, FairSpecCamera)
\* ------------------------------------------------------------------------
MaxTeleports == 1

\* The preset buttons pressed: the walking preset, an orbit preset, the
\* follow preset, and a key CameraPresets does not hold
PresetInputs == {"WALKING", "GROUND_END", "FOLLOW", "NO_SUCH_PRESET"}

\* The minimap clicks: a position at walking height
TeleportPositions == {Vec(400, 6, 0 - 1200)}

\* The orientations handed to teleportToPosition: pitch -0.1 with a yaw, as
\* MinimapControls.teleportCamera builds them, and one with a roll as well
TeleportEulers == {<<(0 - 100) * CamDen, 2820 * CamDen, 0>>,
                   <<(0 - 100) * CamDen, 2820 * CamDen, 200 * CamDen>>}

\* teleportCamera passes 1.0 s
TeleportDurations == {4}

\* Frames of 0.75 s and 1.5 s
FrameDeltas == {3, 6}

\* The wave position handed to update, in 1 / CamDen feet
WaveInputs == {1000 * CamDen}

\* The update would move the camera by walking
WouldWalk(deltaTime) ==
    /\ isWalkingMode
    /\ KeysPush
    /\ isTransitioning =>
            TransitionDone(Min(sinceTransitionStart + deltaTime, MaxElapsed),
                           transitionDuration)

SetPreset ==
    \E presetKey \in PresetInputs :
        /\ setPreset(presetKey, TRUE)
        /\ UNCHANGED lightVars

Teleport ==
    \E position \in TeleportPositions, targetEuler \in TeleportEulers,
       duration \in TeleportDurations :
        /\ teleports < MaxTeleports
        /\ teleportToPosition(position, targetEuler, duration)
        /\ UNCHANGED lightVars

\* A frame with no key held
CameraFrame ==
    \E deltaTime \in FrameDeltas, w \in WaveInputs :
        /\ ExactUpdate(deltaTime)
        /\ ~WouldWalk(deltaTime)
        /\ cameraUpdate(deltaTime, w, <<0, 0>>)
        /\ UNCHANGED lightVars

NextCamera == SetPreset \/ Teleport \/ CameraFrame

SpecCamera == Init /\ [][NextCamera]_vars

\* The camera with its update called again and again
FairSpecCamera == SpecCamera /\ WF_vars(CameraFrame)

\* ------------------------------------------------------------------------
\* The camera with the walking keys (SpecWalking)
\* ------------------------------------------------------------------------
MaxWalkTeleports == 1
MaxWalked == 1

\* The preset button pressed: follow mode; a teleport leads back to walking
WalkPresetInputs == {"FOLLOW"}

WalkKeys == {"w", "shift", " "}

\* Frames of 0.75 s
WalkDeltas == {3}

WalkPreset ==
    \E presetKey \in WalkPresetInputs :
        /\ setPreset(presetKey, TRUE)
        /\ UNCHANGED lightVars

WalkTeleport ==
    \E position \in TeleportPositions, duration \in TeleportDurations :
        /\ teleports < MaxWalkTeleports
        /\ teleportToPosition(position, <<(0 - 100) * CamDen, 2820 * CamDen, 0>>, duration)
        /\ UNCHANGED lightVars

KeyDown ==
    \E key \in WalkKeys :
        /\ keydown(key)
        /\ UNCHANGED lightVars

KeyUp ==
    \E key \in WalkKeys :
        /\ keyup(key)
        /\ UNCHANGED lightVars

WalkFrame ==
    \E deltaTime \in WalkDeltas :
        /\ ExactUpdate(deltaTime)
        /\ WouldWalk(deltaTime) => walked < MaxWalked
        /\ \E heading \in (IF WouldWalk(deltaTime) THEN Headings ELSE {<<0, 0>>}) :
                cameraUpdate(deltaTime, 1000 * CamDen, heading)
        /\ UNCHANGED lightVars

NextWalking == WalkPreset \/ WalkTeleport \/ KeyDown \/ KeyUp \/ WalkFrame

SpecWalking == Init /\ [][NextWalking]_vars

\* ------------------------------------------------------------------------
\* Claims about the camera
\* ------------------------------------------------------------------------

\* The pose is the one CameraPresets holds for presetKey
AtPreset(presetKey) ==
    /\ cameraPosition = CameraPresets[presetKey].position
    /\ controlsTarget = CameraPresets[presetKey].target
    /\ cameraFov = CameraPresets[presetKey].fov

\* C13: whenever an update leaves the camera Steady (not transitioning) in a
\* non-walking, non-follow preset, its position, target and field of view are
\* those of currentPreset, also when setPreset was called while a transition
\* was in flight.
C13_AsStated ==
    (/\ lastCameraCall = "update"
     /\ ~isTransitioning
     /\ ~isWalkingMode
     /\ ~isFollowingWave)
        => AtPreset(currentPreset)

\* The mode flags are the ones the preset selected last stands for
InModeOf(presetKey) ==
    /\ isWalkingMode = CameraPresets[presetKey].isWalking
    /\ isFollowingWave = CameraPresets[presetKey].isFollowing

\* C14: every transition ends. An update made transitionDuration or more
\* after the transition's start leaves isTransitioning false with the mode
\* flags of the preset selected last, an update made earlier leaves the
\* transition running, and while updates keep coming a transition either
\* ends or is replaced by a teleport.
C14_TransitionEnds ==
    /\ [][(lastCameraCall' = "update" /\ isTransitioning) =>
            /\ sinceTransitionStart' >= transitionDuration =>
                    (~isTransitioning' /\ InModeOf(currentPreset)')
            /\ sinceTransitionStart' < transitionDuration => isTransitioning']_vars
    /\ isTransitioning ~> (~isTransitioning \/ lastCameraCall = "teleportToPosition")

\* C14 witness: a teleport has ended, one second or more after it was issued,
\* with the camera walking at the teleport's destination.
C14_Witness ==
    /\ lastCameraCall = "update"
    /\ ~isTransitioning
    /\ teleports = MaxTeleports
    /\ transitionDuration \in TeleportDurations
    /\ sinceTransitionStart >= transitionDuration
    /\ InModeOf("WALKING")
    /\ cameraPosition \in TeleportPositions

\* v is the midpoint of from and to, component by component
Midpoint(v, from, to) == \A k \in 1 .. 3 : 2 * v[k] = from[k] + to[k]

\* C15: in a transition of 1.5 s, the update made 0.75 s after its start
\* computes the eased progress 1/2 and leaves position, target and field of
\* view at the midpoint of the transition's start and end values.
C15_Midpoint ==
    [][(/\ lastCameraCall' = "update"
        /\ isTransitioning
        /\ transitionDuration = DEFAULT_TRANSITION_DURATION
        /\ 2 * sinceTransitionStart' = transitionDuration) =>
            /\ 2 * EaseNum(sinceTransitionStart', transitionDuration)
                    = EaseDen(transitionDuration)
            /\ Midpoint(cameraPosition', transitionFromPos, transitionToPos)
            /\ Midpoint(controlsTarget', transitionFromTarget, transitionToTarget)
            /\ 2 * cameraFov' = transitionFromFov + transitionToFov]_vars

\* C15 witness: half way through a 1.5 s transition from the walking pose to
\* the follow preset, the camera is at the midpoint, away from both ends.
C15_Witness ==
    /\ lastCameraCall = "update"
    /\ isTransitioning
    /\ transitionDuration = DEFAULT_TRANSITION_DURATION
    /\ 2 * sinceTransitionStart = transitionDuration
    /\ transitionFromPos = CameraPresets["WALKING"].position
    /\ transitionToPos = CameraPresets["FOLLOW"].position
    /\ Midpoint(cameraPosition, transitionFromPos, transitionToPos)
    /\ 2 * cameraFov = transitionFromFov + transitionToFov
    /\ cameraPosition # transitionFromPos
    /\ cameraFov # transitionFromFov

C17_ModeExclusive ==
    /\ ~(isWalkingMode /\ isFollowingWave)
    /\ controlsEnabled = ~isWalkingMode

\* C17 witness: a teleport issued after the follow preset was selected has
\* put the camera in walking mode, with follow mode and the orbit controls off.
C17_Witness ==
    /\ lastCameraCall = "teleportToPosition"
    /\ transitionToTarget = CameraPresets["FOLLOW"].target
    /\ currentPreset = "WALKING"
    /\ isWalkingMode
    /\ ~isFollowingWave
    /\ ~controlsEnabled

\* C18: an update that ends with the transition still in flight applied
\* neither follow tracking nor walking locomotion nor gravity: position and
\* target are exactly the interpolated ones and the jump state is untouched.
\* A key event handled in walking mode during the transition sets the key's
\* move flag (keydown) or clears it (keyup), and the space key arms a jump.
C18_TransitionOwnsPose ==
    /\ [][(lastCameraCall' = "update" /\ isTransitioning') =>
            LET num == EaseNum(sinceTransitionStart', transitionDuration)
                den == EaseDen(transitionDuration)
            IN  /\ isTransitioning
                /\ cameraPosition' = LerpVectors(transitionFromPos, transitionToPos, num, den)
                /\ controlsTarget' =
                        LerpVectors(transitionFromTarget, transitionToTarget, num, den)
                /\ isJumping' = isJumping
                /\ verticalVelocity' = verticalVelocity
                /\ walked' = walked]_vars
    /\ [][(lastCameraCall' \in {"keydown", "keyup"} /\ isWalkingMode /\ isTransitioning) =>
            LET down == lastCameraCall' = "keydown"
            IN  /\ lastKey' = "w" => moveState'.forward = down
                /\ lastKey' = "shift" => moveState'.running = down
                /\ (down /\ lastKey' = " " /\ ~isJumping) =>
                        (isJumping' /\ verticalVelocity' = JUMP_SPEED * CamDen)]_vars

\* C18 witness: in walking mode, with forward held and a jump armed while the
\* teleport was in flight, an update has left the camera on the interpolated
\* path between the two ends, with the jump still pending.
C18_Witness ==
    /\ lastCameraCall = "update"
    /\ isTransitioning
    /\ isWalkingMode
    /\ moveState.forward
    /\ isJumping
    /\ verticalVelocity = JUMP_SPEED * CamDen
    /\ walked = 0
    /\ cameraPosition # transitionFromPos
    /\ cameraPosition # transitionToPos
    /\ cameraPosition =
            LerpVectors(transitionFromPos, transitionToPos,
                        EaseNum(sinceTransitionStart, transitionDuration),
                        EaseDen(transitionDuration))

\* ------------------------------------------------------------------------
\* The animation loop: light engine and camera in one frame (SpecAnimate)
\* ------------------------------------------------------------------------
MaxAnimateTime == 60690

\* A quarter second, the camera's time unit, in ticks
TicksPerQuarter == TicksPerSecond \div 4

\* A wave position (numerator over PosDen feet) in the camera's 1 / CamDen feet
WaveToCam(position) == (position * CamDen) \div PosDen

\* The wave position is a whole number of 1 / CamDen feet
ExactWave(position) == (position * CamDen) % PosDen = 0

\* Mutant: the wave position is read before the light engine is updated.
AnimateFrame_StaleWave ==
    \E q \in FrameDeltas :
        LET deltaTime == q * TicksPerQuarter
        IN  /\ OnGrid(deltaTime)
            /\ currentTime + Advance(deltaTime) <= MaxAnimateTime
            /\ ExactUpdate(q)
            /\ WouldWalk(q) => walked < MaxWalked
            /\ update(deltaTime)
            /\ ExactWave(wavePositionAt(currentTime, enabled))
            /\ \E heading \in (IF WouldWalk(q) THEN Headings ELSE {<<0, 0>>}) :
                    cameraUpdate(q, WaveToCam(wavePositionAt(currentTime, enabled)), heading)

\* animate(): lightAnimation.update(deltaTime), then
\* cameraController.update(deltaTime, lightAnimation.getCurrentWavePosition())
AnimateFrame ==
    \E q \in FrameDeltas :
        LET deltaTime == q * TicksPerQuarter
        IN  /\ OnGrid(deltaTime)
            /\ currentTime + Advance(deltaTime) <= MaxAnimateTime
            /\ ExactUpdate(q)
            /\ WouldWalk(q) => walked < MaxWalked
            /\ update(deltaTime)
            /\ ExactWave(wavePositionAt(currentTime', enabled'))
            /\ \E heading \in (IF WouldWalk(q) THEN Headings ELSE {<<0, 0>>}) :
                    cameraUpdate(q, WaveToCam(wavePositionAt(currentTime', enabled')), heading)

\* The preset buttons pressed while the animation runs
AnimatePresetInputs == {"WALKING", "FOLLOW"}

AnimatePreset ==
    \E presetKey \in AnimatePresetInputs :
        /\ setPreset(presetKey, TRUE)
        /\ UNCHANGED lightVars

\* The forward key goes down
AnimateKeyDown ==
    /\ keydown("w")
    /\ UNCHANGED lightVars

NextAnimate == AnimateFrame \/ AnimatePreset \/ AnimateKeyDown \/ SetEnabled

SpecAnimate == Init /\ [][NextAnimate]_vars

\* C19: a frame that leaves the camera in follow mode and not transitioning
\* leaves it at (0, 50, w + 100) looking at (0, 4, w), where w is the wave
\* position the light engine reports after this frame's update, whatever the
\* move flags are.
C19_FollowSeesCurrentWave ==
    [][(/\ lastCall' = "update"
        /\ lastCameraCall' = "update"
        /\ isFollowingWave'
        /\ ~isTransitioning') =>
            LET w == WaveToCam(wavePositionAt(currentTime', enabled'))
            IN  /\ cameraPosition' = <<0, 50 * CamDen, w + 100 * CamDen>>
                /\ controlsTarget' = <<0, 4 * CamDen, w>>]_vars

\* C19 witness: with the forward flag still set from walking mode, a frame in
\* the second cycle of the wave has left the follow camera 100 ft behind and
\* 50 ft above the wave position of that frame.
C19_Witness ==
    /\ lastCall = "update"
    /\ lastCameraCall = "update"
    /\ isFollowingWave
    /\ ~isTransitioning
    /\ moveState.forward
    /\ enabled
    /\ currentTime > cycleDuration
    /\ wavePosition = WaveToCam(getCurrentWavePosition)
    /\ wavePosition # 0
    /\ cameraPosition = <<0, 50 * CamDen, wavePosition + 100 * CamDen>>
    /\ controlsTarget = <<0, 4 * CamDen, wavePosition>>

\* ------------------------------------------------------------------------
\* The realtime brightness burst under the system clock (SpecRealtime)
\* ------------------------------------------------------------------------
MaxRealtimeTime == 237600
MaxClock == 3630

\* An update every three quarters of a cycle
RealtimeDeltas == {(3 * cycleDuration) \div 4}

\* The system clock moves on by 30 s or by 870 s
ClockSteps == {30, 870}

ActivateRealtime == setAnimationMode("brightness-burst-realtime")

UpdateRealtime ==
    \E d \in RealtimeDeltas :
        /\ OnGrid(d)
        /\ currentTime + Advance(d) <= MaxRealtimeTime
        /\ update(d)
        /\ UNCHANGED cameraVars

\* Time passes with no update called
Tick ==
    \E s \in ClockSteps :
        /\ wallClock + s <= MaxClock
        /\ wallClock' = wallClock + s
        /\ UNCHANGED <<currentTime, modeState, PEAK_INTENSITY, params, outputs,
                       timeOfDayPreset, clockAtUpdate, lastCall, lastArg, cameraVars>>

NextRealtime == ActivateRealtime \/ UpdateRealtime \/ Tick

SpecRealtime == Init /\ [][NextRealtime]_vars

\* C20: after every update in brightness-burst-realtime mode the peak
\* intensity is highBrightness / 200 when the clock is in the first 30 s of a
\* quarter hour and fewer than 3 cycle completions are counted, and
\* lowBrightness / 200 otherwise; and the first update after a quarter-hour
\* boundary of the clock starts the count again, so that it holds at most the
\* completion that update itself detected.
C20_AsStated ==
    [][(/\ lastCall' = "update"
        /\ currentTime' # currentTime
        /\ animationMode = "brightness-burst-realtime") =>
            LET secondsIntoQuarterHour == (wallClock % SECONDS_PER_HOUR) % QUARTER_SECONDS
                counted == modeState'.lastBurstCycleCount
            IN  /\ PEAK_INTENSITY' =
                        IF secondsIntoQuarterHour < BURST_WINDOW_SECONDS
                            /\ counted < BURST_REALTIME_CYCLES
                        THEN Internal(highBrightness)
                        ELSE Internal(lowBrightness)
                /\ (/\ Has("lastBurstCycleCount")
                    /\ clockAtUpdate \div QUARTER_SECONDS # wallClock \div QUARTER_SECONDS)
                        => counted <= 1]_vars

\* ------------------------------------------------------------------------
\* A mode name outside the known modes
\* ------------------------------------------------------------------------

\* C21: when animationMode holds a name outside the 12 known modes, every
\* update writes exactly the fixture outputs sequential mode writes for the
\* same currentTime, and nothing else of the engine changes: the mode name,
\* the mode state, the peak and the switches stay as they were.
C21_UnknownModeIsSequential ==
    [][(/\ lastCall' = "update"
        /\ animationMode \notin AvailableModes
        /\ enabled
        /\ ~allLightsOn)
        => /\ lights' = [k \in 1 .. NUM_LIGHTS |->
                            Written(SequentialFlash(currentTime', PEAK_INTENSITY)[k - 1])]
           /\ modeState' = modeState
           /\ PEAK_INTENSITY' = PEAK_INTENSITY
           /\ UNCHANGED params]_vars

\* C21 witness: an update under the unknown mode name has advanced the time
\* and lit fixture 0 as the sequential pattern does.
C21_Witness ==
    /\ lastCall = "update"
    /\ animationMode = "no-such-mode"
    /\ animationMode \notin AvailableModes
    /\ enabled
    /\ ~allLightsOn
    /\ currentTime = FLASH_DURATION \div 2
    /\ intensity(0) = SinPi(FLASH_DURATION \div 2) * PEAK_INTENSITY
    /\ intensity(0) > 0

\* ------------------------------------------------------------------------
\* setPreset with a key CameraPresets does not hold
\* ------------------------------------------------------------------------

\* C22: setPreset(key) with a key not in CameraPresets is a no-op:
\* currentPreset, isWalkingMode, isFollowingWave, the orbit enablement, the
\* transition in flight (its flag, its elapsed time, its duration, its two
\* ends) and the camera pose are all as they were before the call.
C22_UnknownPresetIsNoOp ==
    [][(lastCameraCall' = "setPreset" /\ lastPresetKey' \notin PresetKeys)
        => UNCHANGED <<currentPreset, isWalkingMode, isFollowingWave, controlsEnabled,
                       isTransitioning, sinceTransitionStart, transitionDuration,
                       transitionFromPos, transitionFromTarget, transitionFromFov,
                       transitionFromEuler, transitionToPos, transitionToTarget,
                       transitionToFov, transitionToEuler, cameraPosition,
                       controlsTarget, cameraFov, euler>>]_vars

\* C22 witness: setPreset("NO_SUCH_PRESET") returned while the transition
\* into the follow preset was half way.
C22_Witness ==
    /\ lastCameraCall = "setPreset"
    /\ lastPresetKey = "NO_SUCH_PRESET"
    /\ lastPresetKey \notin PresetKeys
    /\ currentPreset = "FOLLOW"
    /\ isFollowingWave
    /\ isTransitioning
    /\ sinceTransitionStart = 3

\* ------------------------------------------------------------------------
\* The convergence and divergence point
\* ------------------------------------------------------------------------

\* setConvergencePoint(point)
setConvergencePoint(point) ==
    /\ convergencePoint' = Max(0, Min(NUM_LIGHTS - 1, point))
    /\ lastCall' = "setConvergencePoint"
    /\ lastArg' = ToString(point)
    /\ UNCHANGED <<currentTime, modeState, PEAK_INTENSITY, enabled, speedMultiplier,
                   allLightsOn, animationMode, divergencePoint, lowBrightness,
                   highBrightness, timeOfDayPreset, clock, cameraVars, outputs>>

\* setDivergencePoint(point)
setDivergencePoint(point) ==
    /\ divergencePoint' = Max(0, Min(NUM_LIGHTS - 1, point))
    /\ lastCall' = "setDivergencePoint"
    /\ lastArg' = ToString(point)
    /\ UNCHANGED <<currentTime, modeState, PEAK_INTENSITY, enabled, speedMultiplier,
                   allLightsOn, animationMode, convergencePoint, lowBrightness,
                   highBrightness, timeOfDayPreset, clock, cameraVars, outputs>>

\* A query-string value is a sequence of characters; parseInt reads an
\* optional minus sign and the longest run of decimal digits after it, and
\* gives NaN when there is no digit.  The result is <<n>>, or <<>> for NaN.
DigitValue(c) ==
    CASE c = "0" -> 0 [] c = "1" -> 1 [] c = "2" -> 2 [] c = "3" -> 3 [] c = "4" -> 4
      [] c = "5" -> 5 [] c = "6" -> 6 [] c = "7" -> 7 [] c = "8" -> 8 [] c = "9" -> 9
      [] OTHER -> 0 - 1

RECURSIVE DigitRun(_, _, _)
DigitRun(str, k, acc) ==
    IF k > Len(str) \/ DigitValue(str[k]) < 0
    THEN acc
    ELSE DigitRun(str, k + 1, acc * 10 + DigitValue(str[k]))

parseInt(str) ==
    LET negative == Len(str) > 0 /\ str[1] = "-"
        first == IF negative THEN 2 ELSE 1
    IN  IF first > Len(str) \/ DigitValue(str[first]) < 0
        THEN <<>>
        ELSE <<(IF negative THEN 0 - 1 ELSE 1) * DigitRun(str, first, 0)>>

\* The characters of a value, for the record of the call
RECURSIVE Joined(_)
Joined(str) == IF str = <<>> THEN "" ELSE Head(str) \o Joined(Tail(str))

\* parseURLParameters(), its `mode` and `point` parts; mode "" and point <<>>
\* stand for a parameter that is absent or empty (params.get gives null or
\* "", and both skip the block or parse to NaN).
parseURLParameters(mode, point) ==
    LET modeExists == mode \in AvailableModes
        currentMode == IF modeExists THEN mode ELSE animationMode
        pointNum == parseInt(point)
        accepted == pointNum # <<>> /\ pointNum[1] >= 0 /\ pointNum[1] < 30
    IN  /\ animationMode' = currentMode
        /\ currentTime' = IF modeExists THEN 0 ELSE currentTime
        /\ modeState' = IF modeExists THEN EmptyModeState ELSE modeState
        /\ timeOfDayPreset' =
                IF modeExists /\ mode \in {"brightness-burst", "brightness-burst-realtime"}
                THEN "night" ELSE timeOfDayPreset
        /\ convergencePoint' =
                IF accepted /\ currentMode = "converge-point"
                THEN Max(0, Min(NUM_LIGHTS - 1, pointNum[1]))
                ELSE convergencePoint
        /\ divergencePoint' =
                IF accepted /\ currentMode = "diverge-point"
                THEN Max(0, Min(NUM_LIGHTS - 1, pointNum[1]))
                ELSE divergencePoint
        /\ lastCall' = "parseURLParameters"
        /\ lastArg' = Joined(point)
        /\ UNCHANGED <<PEAK_INTENSITY, enabled, speedMultiplier, allLightsOn, lowBrightness,
                       highBrightness, clock, cameraVars, outputs>>

\* The cap on currentTime, in ticks: two steps of the wave
MaxPointTime == 3520

PointDeltas == {FLASH_DURATION \div 2, timeBetweenLights}

PointModes == {"converge-point", "diverge-point"}

\* The values of the `mode` and `point` query parameters
URLModes == {"", "converge-point", "diverge-point", "no-such-mode"}
URLPoints == {<<>>, <<"0">>, <<"2", "9">>, <<"4", "0">>, <<"-", "1">>, <<"x">>}

\* The indices handed to the setters
PointInputs == {0 - 5, 0, 16, 29, 40}

\* main.js calls parseURLParameters once, before the first frame
ParseURLParameters ==
    \E mode \in URLModes, point \in URLPoints :
        /\ lastCall = "constructor"
        /\ parseURLParameters(mode, point)

ActivatePoint == \E m \in PointModes : setAnimationMode(m)

SetConvergencePoint == \E point \in PointInputs : setConvergencePoint(point)

SetDivergencePoint == \E point \in PointInputs : setDivergencePoint(point)

UpdatePoint ==
    \E d \in PointDeltas :
        /\ animationMode \in PointModes
        /\ OnGrid(d)
        /\ currentTime + Advance(d) <= MaxPointTime
        /\ update(d)
        /\ UNCHANGED cameraVars

NextPoint ==
    \/ ParseURLParameters
    \/ ActivatePoint
    \/ SetConvergencePoint
    \/ SetDivergencePoint
    \/ UpdatePoint

SpecPoint == Init /\ [][NextPoint]_vars

\* C23 as stated: an out-of-range point index is clamped into 0..N-1 and
\* never rejected, through setConvergencePoint/setDivergencePoint and through
\* the startup `point` URL parameter alike (mode=converge-point with point=40
\* gives convergencePoint = 29), and both points are in 0..N-1 in every
\* reachable state.
C23_AsStated ==
    /\ convergencePoint \in Fixtures
    /\ divergencePoint \in Fixtures
    /\ (lastCall = "setConvergencePoint" /\ lastArg = "40") => convergencePoint = 29
    /\ (lastCall = "setDivergencePoint" /\ lastArg = "-5") => divergencePoint = 0
    /\ (lastCall = "parseURLParameters" /\ lastArg = "40") =>
            /\ animationMode = "converge-point" => convergencePoint = 29
            /\ animationMode = "diverge-point" => divergencePoint = 29
    /\ (lastCall = "parseURLParameters" /\ lastArg = "-1") =>
            /\ animationMode = "converge-point" => convergencePoint = 0
            /\ animationMode = "diverge-point" => divergencePoint = 0

\* C24 as stated: in every animation mode and for every convergencePoint and
\* divergencePoint in 0..N-1 the timeDiff handed to calculateFlashIntensity
\* is non-negative after the one wrap-around addition, so that after every
\* update every fixture's intensity lies in [0, PEAK_INTENSITY] and its glow
\* and bulb opacities in [0, peak opacity].
C24_AsStated ==
    (/\ lastCall = "update"
     /\ convergencePoint \in Fixtures
     /\ divergencePoint \in Fixtures)
        => \A i \in Fixtures :
            /\ intensity(i) >= 0
            /\ intensity(i) <= PEAK_INTENSITY * CurveDen
            /\ glowOpacity(i) >= 0
            /\ glowOpacity(i) <= PEAK_OPACITY_TENTHS * CurveDen
            /\ bulbOpacity(i) >= 0
            /\ bulbOpacity(i) <= PEAK_BULB_OPACITY_TENTHS * CurveDen

\* ------------------------------------------------------------------------
\* The order of the flashes in the two center modes
\* ------------------------------------------------------------------------

\* The cycleTime at which a fixture of the given offset has timeDiff = 0 in
\* the half-length cycle: lightFlashTime itself, or lightFlashTime less the
\* one wrap when no cycleTime reaches it.
CenterTrigger(offset) ==
    LET lightFlashTime == offset * timeBetweenLights
    IN  IF lightFlashTime < cycleDuration \div 2
        THEN lightFlashTime
        ELSE lightFlashTime - cycleDuration \div 2

\* The fixtures next to the middle of the line, and its two ends
MidFixtures == {(NUM_LIGHTS - 1) \div 2, NUM_LIGHTS \div 2}
EndFixtures == {0, NUM_LIGHTS - 1}

\* C25 as stated: in converge-center mode with N = 30 each fixture's trigger
\* offset is its distance to the nearer end of the line, every offset is
\* strictly less than the half-length cycle, the end fixtures flash first
\* and the midpoint fixtures last within each half-length cycle, and no
\* midpoint fixture is lit together with an end fixture.
C25_AsStated ==
    (lastCall = "update" /\ animationMode = "converge-center" /\ enabled /\ ~allLightsOn)
        => /\ \A i \in Fixtures :
                /\ ConvergeCenterOffset(i) = Min(i, NUM_LIGHTS - 1 - i)
                /\ ConvergeCenterOffset(i) * timeBetweenLights < cycleDuration \div 2
           /\ \A e \in EndFixtures, m \in MidFixtures, i \in Fixtures :
                /\ CenterTrigger(ConvergeCenterOffset(e))
                        <= CenterTrigger(ConvergeCenterOffset(i))
                /\ CenterTrigger(ConvergeCenterOffset(i))
                        <= CenterTrigger(ConvergeCenterOffset(m))
           /\ \A e \in EndFixtures, m \in MidFixtures :
                ~(intensity(e) > 0 /\ intensity(m) > 0)

\* C26 as stated: in diverge-center mode with N = 30 the triggers within the
\* half-length cycle are ordered by the distance from the midpoint fixture:
\* the midpoint fixture flashes first, both end fixtures flash last, and no
\* end fixture is lit together with the midpoint fixture.
C26_AsStated ==
    (lastCall = "update" /\ animationMode = "diverge-center" /\ enabled /\ ~allLightsOn)
        => LET mid == NUM_LIGHTS \div 2
           IN  /\ \A i, j \in Fixtures :
                    Abs(i - mid) < Abs(j - mid)
                        => CenterTrigger(DivergeCenterOffset(i))
                                < CenterTrigger(DivergeCenterOffset(j))
               /\ \A e \in EndFixtures, i \in Fixtures :
                    CenterTrigger(DivergeCenterOffset(i))
                        <= CenterTrigger(DivergeCenterOffset(e))
               /\ \A e \in EndFixtures : ~(intensity(e) > 0 /\ intensity(mid) > 0)

\* ------------------------------------------------------------------------
\* Brightness burst under reset() and long frames
\* ------------------------------------------------------------------------

\* The cap on currentTime, in cycles
MaxLongCycles == 10

\* A third of a cycle, and a frame of a cycle and a third (the frame after
\* the page was in the background, or a frame at ten times the speed)
LongDeltas == {cycleDuration \div 3, cycleDuration + cycleDuration \div 3}

UpdateLong ==
    \E d \in LongDeltas :
        /\ animationMode = "brightness-burst"
        /\ OnGrid(d)
        /\ currentTime + Advance(d) <= MaxLongCycles * cycleDuration
        /\ update(d)
        /\ UNCHANGED cameraVars

\* controls.js, key r
KeyReset == reset

NextLong == ActivateBurst \/ UpdateLong \/ KeyReset

SpecLong == Init /\ [][NextLong]_vars

\* C27 as stated: in brightness-burst mode modeState.cycleCount is the number
\* of cycle boundaries virtual time has crossed since the activation, modulo
\* 8: every update advances it by the number of boundaries the step crosses
\* (one per completed cycle and never otherwise, also in the update after a
\* reset() in mid cycle and in an update that skips several cycles), and no
\* other call changes it.
C27_AsStated ==
    [][animationMode = "brightness-burst" =>
        LET before == IF Has("cycleCount") THEN modeState.cycleCount ELSE 0
            crossed == (currentTime' \div cycleDuration) - (currentTime \div cycleDuration)
        IN  /\ (lastCall' = "update" /\ currentTime' > currentTime /\ enabled /\ ~allLightsOn)
                => modeState'.cycleCount = (before + crossed) % BURST_TOTAL_CYCLES
            /\ lastCall' = "reset" => modeState' = modeState]_vars

\* ------------------------------------------------------------------------
\* The length of a preset transition
\* ------------------------------------------------------------------------

\* C28 as stated: every animated transition started by setPreset lasts 1.5 s
\* (update computes progress = elapsed / transitionDuration, so progress
\* reaches 1 exactly transitionDuration after the call), whatever
\* teleportToPosition calls were made earlier in the session.
C28_AsStated ==
    [][(lastCameraCall' = "setPreset" /\ ~isTransitioning /\ isTransitioning')
        => /\ sinceTransitionStart' = 0
           /\ transitionDuration' = DEFAULT_TRANSITION_DURATION]_vars

\* ------------------------------------------------------------------------
\* The two fast modes
\* ------------------------------------------------------------------------

\* cycleDuration / 5 and timeBetweenLights / 5, in ticks
fastCycleDuration == cycleDuration \div FAST_FACTOR
FastSlot == timeBetweenLights \div FAST_FACTOR

\* The cap on currentTime, in ticks: one super-cycle of fast-runs and one
\* fast pass more
MaxFastTime == 95040

\* Half a flash, and one fast pass
FastDeltas == {FLASH_DURATION \div 2, fastCycleDuration}

FastModes == {"fast-runs", "ping-pong-fast"}

ActivateFast == \E m \in FastModes : setAnimationMode(m)

UpdateFast ==
    \E d \in FastDeltas :
        /\ animationMode \in FastModes
        /\ OnGrid(d)
        /\ currentTime + Advance(d) <= MaxFastTime
        /\ update(d)
        /\ UNCHANGED cameraVars

NextFast == ActivateFast \/ UpdateFast

SpecFast == Init /\ [][NextFast]_vars

\* The super-cycle of fast-runs and the times in it at which the front of a
\* pass reaches fixture i: once in the normal pass, once in each fast pass
FastRunsCycle == cycleDuration + FAST_RUNS * fastCycleDuration

FastRunsTriggers(i) ==
    {i * timeBetweenLights}
        \cup {cycleDuration + k * fastCycleDuration + i * FastSlot : k \in 0 .. (FAST_RUNS - 1)}

\* The time since the front reached fixture i last, this super-cycle or the
\* one before
SinceFastTrigger(i) ==
    LET since == {((currentTime % FastRunsCycle) - trigger) % FastRunsCycle :
                        trigger \in FastRunsTriggers(i)}
    IN  CHOOSE s \in since : \A other \in since : s <= other

\* C29 as stated: in fast-runs mode a super-cycle is one normal pass and 3
\* passes at 5x speed, and every fixture, the last one included, is lit in
\* exactly 4 flash windows per super-cycle, each the flash curve started from
\* zero at the fixture's trigger in its pass; no fixture is lit at the start
\* of the fast phase before the fast front reaches it.
C29_AsStated ==
    (lastCall = "update" /\ animationMode = "fast-runs" /\ enabled /\ ~allLightsOn)
        => /\ FastRunsCycle = cycleDuration + (3 * cycleDuration) \div 5
           /\ \A i \in Fixtures :
                /\ Cardinality(FastRunsTriggers(i)) = 4
                /\ intensity(i)
                    = calculateFlashIntensity(SinceFastTrigger(i), PEAK_INTENSITY).intensity
           /\ currentTime % FastRunsCycle = cycleDuration
                => \A i \in Fixtures \ {0} : intensity(i) = 0

\* The place of the front in ping-pong-fast, as time from fixture 0: it runs
\* up in the forward pass and down in the reverse pass
PingPongFastFront ==
    LET cycleTime == currentTime % (2 * fastCycleDuration)
    IN  IF cycleTime >= fastCycleDuration
        THEN 2 * fastCycleDuration - cycleTime
        ELSE cycleTime

\* C30 as stated: in ping-pong-fast mode a fixture is lit only within
\* FLASH_DURATION of the front reaching it in the pass in progress; in
\* particular the last fixture is dark while the front turns around at
\* fixture 0.
C30_AsStated ==
    (lastCall = "update" /\ animationMode = "ping-pong-fast" /\ enabled /\ ~allLightsOn)
        => /\ \A i \in Fixtures :
                intensity(i) > 0
                    => (PingPongFastFront - i * FastSlot) \in 0 .. FLASH_DURATION
           /\ PingPongFastFront < FastSlot => intensity(NUM_LIGHTS - 1) = 0

\* ------------------------------------------------------------------------
\* The orientation a teleport leaves behind
\* ------------------------------------------------------------------------

\* C31 as stated: transitionToEuler is non-null only while a transition
\* started by teleportToPosition is in flight: after any sequence of
\* setPreset, teleportToPosition and update calls, once isTransitioning is
\* false transitionToEuler is null, so that a later animated
\* setPreset('WALKING') takes its final orientation from the preset's look
\* direction and never from an earlier teleport.
C31_AsStated ==
    ~isTransitioning => transitionToEuler = Null

\* ------------------------------------------------------------------------
\* The move flags and the keys held
\* ------------------------------------------------------------------------

\* C32 as stated: in walking mode a move-intent flag is true only while its
\* key is physically held: after any interleaving of keydown, keyup and
\* setPreset calls a key released while the camera was in a non-walking
\* preset does not leave its flag set when walking mode is entered again.
C32_AsStated ==
    isWalkingMode =>
        /\ moveState.forward => "w" \in keysHeld
        /\ moveState.backward => "s" \in keysHeld
        /\ moveState.left => "a" \in keysHeld
        /\ moveState.right => "d" \in keysHeld
        /\ moveState.running => "shift" \in keysHeld

\* ------------------------------------------------------------------------
\* What a mode change leaves alone
\* ------------------------------------------------------------------------

\* C33: setAnimationMode changes only animationMode, currentTime and
\* modeState (and asks for the night preset when a burst mode is chosen): it
\* leaves PEAK_INTENSITY, speedMultiplier, enabled, allLightsOn, the
\* convergence and divergence points, the brightness bounds and the fixtures
\* as they were, so the peak a brightness-burst mode wrote last is the peak
\* the mode chosen next flashes with.
C33_ModeChangeFrame ==
    [][lastCall' = "setAnimationMode"
        => /\ UNCHANGED <<PEAK_INTENSITY, speedMultiplier, enabled, allLightsOn,
                          convergencePoint, divergencePoint, lowBrightness,
                          highBrightness, lights>>
           /\ timeOfDayPreset' \in {timeOfDayPreset, "night"}]_vars

\* C33 witness: sequential mode, chosen after brightness-burst had set the
\* peak to lowBrightness / 200, has been updated and flashes fixture 0 with
\* that peak and not with the constructor's.
C33_Witness ==
    /\ lastCall = "update"
    /\ animationMode = "sequential"
    /\ PEAK_INTENSITY = Internal(lowBrightness)
    /\ PEAK_INTENSITY # DEFAULT_PEAK_INTENSITY
    /\ currentTime = FLASH_DURATION \div 2
    /\ intensity(0) = SinPi(FLASH_DURATION \div 2) * Internal(lowBrightness)
    /\ intensity(0) > 0

\* ------------------------------------------------------------------------
\* The accent spotlights
\* ------------------------------------------------------------------------

\* C34 as stated: in every reachable state each fixture's accent spotlight
\* intensity is 0.3 times its main light intensity, after any sequence of
\* update, setEnabled, setAllLightsOn and mode changes; in particular it is 0
\* whenever the main intensity is 0.
C34_AsStated ==
    \A i \in Fixtures :
        /\ spotIntensity(i) = intensity(i) * SPOT_RATIO_TENTHS
        /\ intensity(i) = 0 => spotIntensity(i) = 0

\* ------------------------------------------------------------------------
\* The point modes with the point in the middle
\* ------------------------------------------------------------------------

\* Updates of the two point modes over the half-length cycle and a slot
\* more, the points as the constructor leaves them: floor(N / 2)
UpdateMiddle ==
    \E d \in CenterDeltas :
        /\ animationMode \in PointModes
        /\ OnGrid(d)
        /\ currentTime + Advance(d) <= MaxCenterSlots * timeBetweenLights
        /\ update(d)
        /\ UNCHANGED cameraVars

NextMiddle == ActivatePoint \/ UpdateMiddle

SpecMiddle == Init /\ [][NextMiddle]_vars

\* C35: with convergencePoint = floor(N/2) an update of converge-point
\* writes, for every currentTime and fixture, exactly what converge-center
\* writes, and with divergencePoint = floor(N/2) an update of diverge-point
\* writes exactly what diverge-center writes.
C35_PointGeneralizesCenter ==
    [][(lastCall' = "update" /\ currentTime' > currentTime /\ enabled /\ ~allLightsOn)
        => /\ (animationMode = "converge-point" /\ convergencePoint = NUM_LIGHTS \div 2)
                => lights' = [k \in 1 .. NUM_LIGHTS |->
                                Written(HalfCycleFlash(
                                    [i \in Fixtures |-> ConvergeCenterOffset(i)],
                                    currentTime', PEAK_INTENSITY)[k - 1])]
           /\ (animationMode = "diverge-point" /\ divergencePoint = NUM_LIGHTS \div 2)
                => lights' = [k \in 1 .. NUM_LIGHTS |->
                                Written(HalfCycleFlash(
                                    [i \in Fixtures |-> DivergeCenterOffset(i)],
                                    currentTime', PEAK_INTENSITY)[k - 1])]]_vars

\* C35 witness: converge-point with the point at fixture 15, in the second
\* half-length cycle; the fixture at the point is lit, as in converge-center.
C35_Witness ==
    /\ lastCall = "update"
    /\ animationMode = "converge-point"
    /\ convergencePoint = NUM_LIGHTS \div 2
    /\ currentTime = cycleDuration \div 2 + FLASH_DURATION \div 2
    /\ intensity(convergencePoint) > 0
    /\ intensity(convergencePoint) = intensity(0)

\* ------------------------------------------------------------------------
\* Jumping
\* ------------------------------------------------------------------------

\* Frames of 0.25 s and of 1.5 s
JumpDeltas == {1, 6}

\* Space pressed and released
JumpKeyDown == keydown(" ") /\ UNCHANGED lightVars

JumpKeyUp == keyup(" ") /\ UNCHANGED lightVars

\* A frame with no move key held
JumpFrame ==
    \E deltaTime \in JumpDeltas :
        /\ ExactUpdate(deltaTime)
        /\ ~KeysPush
        /\ cameraUpdate(deltaTime, 1000 * CamDen, <<0, 0>>)
        /\ UNCHANGED lightVars

NextJump == WalkPreset \/ WalkTeleport \/ JumpKeyDown \/ JumpKeyUp \/ JumpFrame

SpecJump == Init /\ [][NextJump]_vars

\* requestAnimationFrame keeps calling update
FairSpecJump == SpecJump /\ WF_vars(JumpFrame)

\* The camera stands on the ground, not jumping
Landed ==
    /\ cameraPosition[2] = GROUND_LEVEL * CamDen
    /\ ~isJumping
    /\ verticalVelocity = 0

\* C36: in walking mode with no transition in flight the camera height is at
\* least groundLevel after every update; a Space press while isJumping is
\* true does not change verticalVelocity; the update that ends a jump leaves
\* the camera at groundLevel with isJumping false and verticalVelocity 0; and
\* a jump started in walking mode ends, as long as the camera stays in
\* walking mode.
C36_Jump ==
    /\ []((lastCameraCall = "update" /\ isWalkingMode /\ ~isTransitioning)
            => cameraPosition[2] >= GROUND_LEVEL * CamDen)
    /\ [][(lastCameraCall' = "keydown" /\ lastKey' = " " /\ isJumping)
            => (verticalVelocity' = verticalVelocity /\ isJumping')]_vars
    /\ [][(isJumping /\ ~isJumping') => (lastCameraCall' = "update" /\ Landed')]_vars
    /\ (isJumping /\ isWalkingMode) ~> (Landed \/ ~isWalkingMode)

\* C36 witness: a jump is at its top, 3.75 ft above the ground, two frames
\* of 0.25 s after the Space press, with Space pressed again in between.
C36_Witness ==
    /\ lastCameraCall = "update"
    /\ isWalkingMode
    /\ ~isTransitioning
    /\ isJumping
    /\ verticalVelocity = 0
    /\ cameraPosition[2] > GROUND_LEVEL * CamDen

\* ------------------------------------------------------------------------
\* The wave position under the switches and the mode
\* ------------------------------------------------------------------------

\* The modes chosen while the follow camera runs
WaveModes == {"sequential", "ping-pong"}

WaveMode == \E m \in WaveModes : setAnimationMode(m)

\* The follow preset button
FollowPreset ==
    /\ setPreset("FOLLOW", TRUE)
    /\ UNCHANGED lightVars

NextWave == AnimateFrame \/ FollowPreset \/ WaveMode \/ SetEnabled \/ SetAllLightsOn

SpecWave == Init /\ [][NextWave]_vars

\* The front of a wave that leaves fixture 0 at the start of every cycle and
\* travels one foot in TicksPerFoot ticks, as a numerator over PosDen feet
FrontAt(t) == FixturePosition(0) + (t % cycleDuration) * (PosDen \div TicksPerFoot)

\* C37: getCurrentWavePosition() depends on currentTime and enabled only,
\* never on animationMode: while enabled is false it is 0, the centre of the
\* installation, although currentTime is kept, and a follow camera that is
\* not in transition is put at the centre by the next frame; with allLightsOn
\* true and enabled true a frame leaves currentTime as it is and the
\* position, and the follow camera with it, stays at the frozen front.
C37_WavePosition ==
    /\ [](getCurrentWavePosition = IF enabled THEN FrontAt(currentTime) ELSE 0)
    /\ [][lastCall' = "setEnabled" => currentTime' = currentTime]_vars
    /\ [][(/\ lastCall' = "update"
           /\ lastCameraCall' = "update"
           /\ isFollowingWave'
           /\ ~isTransitioning')
            => /\ ~enabled
                    => /\ cameraPosition' = <<0, 50 * CamDen, 100 * CamDen>>
                       /\ controlsTarget' = <<0, 4 * CamDen, 0>>
               /\ (enabled /\ allLightsOn)
                    => /\ currentTime' = currentTime
                       /\ cameraPosition' = <<0, 50 * CamDen,
                                              WaveToCam(FrontAt(currentTime)) + 100 * CamDen>>
                       /\ controlsTarget' = <<0, 4 * CamDen,
                                              WaveToCam(FrontAt(currentTime))>>]_vars

\* C37 witness: in ping-pong mode, with the animation switched off while the
\* front is away from the centre, a frame has put the follow camera at the
\* centre and currentTime is kept.
C37_Witness ==
    /\ lastCall = "update"
    /\ lastCameraCall = "update"
    /\ animationMode = "ping-pong"
    /\ ~enabled
    /\ currentTime > 0
    /\ FrontAt(currentTime) # 0
    /\ getCurrentWavePosition = 0
    /\ isFollowingWave
    /\ ~isTransitioning
    /\ cameraPosition = <<0, 50 * CamDen, 100 * CamDen>>

\* ------------------------------------------------------------------------
\* Sequential mode under every multiplier and both switches
\* ------------------------------------------------------------------------

\* The cap on currentTime, in ticks: into the flash of fixture 1
MaxStrobeTime == 1900

\* A frame of 10 ticks advances currentTime by one tick for each tenth of
\* the multiplier, a frame of 5 * FLASH_DURATION ticks by half a flash.
StrobeDeltas == {10, 5 * FLASH_DURATION}

UpdateStrobe ==
    \E d \in StrobeDeltas :
        /\ OnGrid(d)
        /\ currentTime + Advance(d) <= MaxStrobeTime
        /\ update(d)
        /\ UNCHANGED cameraVars

\* The multipliers of the slider, in tenths: the slowest, 0.4, real time
\* and the fastest
StrobeSpeeds == {1, 4, 10, 100}

StrobeSpeed == \E x \in StrobeSpeeds : setSpeedMultiplier(x)

NextStrobe == UpdateStrobe \/ StrobeSpeed \/ SetEnabled \/ SetAllLightsOn

SpecStrobe == Init /\ [][NextStrobe]_vars

\* The fixtures with a non-zero intensity
LitFixtures == {i \in Fixtures : intensity(i) # 0}

\* C38 as stated: in sequential mode at most one fixture has a non-zero
\* intensity after any update, for every currentTime and multiplier.
C38_AsStated ==
    (lastCall = "update" /\ animationMode = "sequential")
        => Cardinality(LitFixtures) <= 1

\* C38, amended: in sequential mode with allLightsOn false at most one
\* fixture has a non-zero intensity after any update, for every currentTime
\* and multiplier; with allLightsOn true an update lights every fixture.
C38_OneFixtureLit ==
    (lastCall = "update" /\ animationMode = "sequential")
        => IF allLightsOn
           THEN LitFixtures = Fixtures
           ELSE Cardinality(LitFixtures) <= 1

\* C38 witness: an update at a multiplier other than 1 has left fixture 1,
\* and no other, lit.
C38_Witness ==
    /\ lastCall = "update"
    /\ animationMode = "sequential"
    /\ ~allLightsOn
    /\ enabled
    /\ speedMultiplier # 10
    /\ LitFixtures = {1}

\* ------------------------------------------------------------------------
\* The LightAnimation variant with fixed brightness-burst peaks
\* ------------------------------------------------------------------------

\* this.PEAK_INTENSITY = 30 and this.PEAK_INTENSITY = 1000
FIXED_DIM_PEAK == 30
FIXED_BRIGHT_PEAK == 1000

\* updateBrightnessBurst() of the variant: the initialisation block is
\* guarded by !this.modeState.cycleCount, which holds when the count is
\* missing and when it is 0, and it writes no peak.
updateBrightnessBurstFixed(t) ==
    LET fresh == IF Has("cycleCount") THEN modeState.cycleCount = 0 ELSE TRUE
        state0 == IF fresh
                  THEN ("cycleCount" :> 0) @@ ("lastCycleTime" :> 0) @@ modeState
                  ELSE modeState
        cycleTime == t % cycleDuration
        completed == cycleTime < state0.lastCycleTime
        count1 == IF completed THEN BurstCount(state0.cycleCount) ELSE state0.cycleCount
        peak1 == IF completed
                 THEN IF count1 < BURST_DIM_CYCLES
                      THEN FIXED_DIM_PEAK
                      ELSE FIXED_BRIGHT_PEAK
                 ELSE PEAK_INTENSITY
    IN  /\ modeState' = [state0 EXCEPT !["cycleCount"] = count1,
                                       !["lastCycleTime"] = cycleTime]
        /\ PEAK_INTENSITY' = peak1
        /\ SetLightIntensities(SequentialFlash(t, peak1))

\* update(deltaTime) of the variant, in brightness-burst mode
updateFixed(deltaTime) ==
    /\ lastCall' = "update"
    /\ lastArg' = ""
    /\ UNCHANGED <<params, timeOfDayPreset, wallClock, clockAtUpdate>>
    /\ IF allLightsOn
       THEN /\ setAllLightsIntensity(PEAK_INTENSITY)
            /\ UNCHANGED <<currentTime, modeState, PEAK_INTENSITY>>
       ELSE IF ~enabled
       THEN UNCHANGED <<currentTime, modeState, PEAK_INTENSITY, outputs>>
       ELSE /\ currentTime' = currentTime + Advance(deltaTime)
            /\ updateBrightnessBurstFixed(currentTime + Advance(deltaTime))

MaxFixedCycles == 9

UpdateFixedBurst ==
    \E d \in BurstDeltas :
        /\ animationMode = "brightness-burst"
        /\ OnGrid(d)
        /\ currentTime + Advance(d) <= MaxFixedCycles * cycleDuration
        /\ updateFixed(d)
        /\ UNCHANGED cameraVars

NextFixedBurst == ActivateBurst \/ UpdateFixedBurst

SpecFixedBurst == Init /\ [][NextFixedBurst]_vars

\* The peak the 5-dim / 3-bright pattern of the variant gives the cycle in
\* progress
FixedPatternPeak ==
    IF CyclesCompleted % BURST_TOTAL_CYCLES < BURST_DIM_CYCLES
    THEN FIXED_DIM_PEAK
    ELSE FIXED_BRIGHT_PEAK

\* C39 as stated: in the variant with the fixed peaks, driven by updates
\* shorter than a cycle, the initialisation runs once per activation and the
\* cycle counter advances at each cycle completion, so that from the first
\* completion on the peak is 30 while the count is below 5 and 1000 for the
\* next 3 cycles, repeating.
C39_AsStated ==
    (animationMode = "brightness-burst" /\ lastCall = "update") =>
        /\ modeState.cycleCount = CyclesCompleted % BURST_TOTAL_CYCLES
        /\ CyclesCompleted >= 1 => PEAK_INTENSITY = FixedPatternPeak

====
